---------------------------- MODULE Spec2Model ----------------------------
(***************************************************************************)
(* Model of the inventohub batch jobs:                                     *)
(*   - parse_xml            (src/epo_parse_xml.py, src/epo_to_parquet.py)  *)
(*   - process_year         (src/epo_parse_xml.py)                         *)
(*   - main, thread pool    (src/epo_to_parquet.py)                        *)
(*   - process_uspto_zip_to_parquet (src/uspto_scraper.py)                 *)
(*   - main, chunked rewrite (src/epo_2022_2024.py)                        *)
(* Each job is an independent program; each has its own specification     *)
(* (SpecParse, SpecYear, SpecPool, SpecUspto, SpecRewrite) over its own    *)
(* variables, the variables of the other jobs staying idle.                *)
(* The functions the jobs call are modelled one call at a time, each with  *)
(* its own specification as well:                                          *)
(*   - parse_xml, the classification and title fields      SpecFields     *)
(*   - split_patent_documents (src/uspto_scraper.py)        SpecSplit      *)
(*   - extract_data           (src/uspto_scraper.py)        SpecExtract    *)
(*   - chunk_text             (src/epo_to_parquet.py)       SpecChunk      *)
(*   - embed_document, process_key (src/epo_to_parquet.py)  SpecEmbed      *)
(* The scripts that move the weekly archives are modelled run by run:      *)
(*   - the archive names of both EPO scripts                SpecNames      *)
(*   - the backfill of epo_extract_xml (src/epo_extract_xml.py)            *)
(*                                                          SpecBackfill   *)
(*   - the scraper epo_s3 (src/epo_s3.py)                   SpecScraper    *)
(*   - both of them                                         SpecArchives   *)
(*   - the main loop of uspto_scraper (src/uspto_scraper.py) SpecMain      *)
(***************************************************************************)
EXTENDS Integers, Sequences, FiniteSets, TLC

VARIABLES
    \* ---- parse_xml (one call) ----
    pxPc,        \* "idle" | "call" | "returned"
    pxDoc,       \* what get_object / ET.fromstring give for the key
    pxResult,    \* the value the call ended with
    \* ---- process_year ----
    yrPc,        \* position in process_year
    yrBucket,    \* the objects listed under the prefix, in listing order
    yrI,         \* number of listed keys the loop has taken
    batch,       \* the pending batch (records named by their source key)
    txn,         \* rows executed in the open transaction, not yet committed
    committed,   \* rows committed to the table
    total_records_inserted,
    attempts,    \* history: every batch handed to execute_batch, and where
    \* ---- main of epo_to_parquet (thread pool) ----
    plPc,        \* position of the main thread
    plDocs,      \* the document behind each listed key
    futures,     \* per key: the state of its future and its outcome
    records,     \* the list `records`
    plI,         \* the counter i of the as_completed loop
    \* ---- process_uspto_zip_to_parquet ----
    usPc,        \* position in the function
    usKey,       \* the argument s3_zip_key, split on "/"
    usLocal,     \* whether local_zip_path_to_process is given and exists
    usArchive,   \* the members of the zip archive
    usHead,      \* what head_object answered for the Parquet key
    usFileIx,    \* index of the XML file being processed
    consolidated_records,
    usParquet,   \* the rows of the Parquet uploaded to S3 (<<>> if none)
    usReturn,    \* the value the function returned
    \* ---- main of epo_2022_2024 (chunked rewrite) ----
    rwPc,        \* position in main
    rwSource,    \* the row groups of the input Parquet
    rwI,         \* number of row groups the loop has taken
    writer,      \* "None" | "open" | "closed"
    writerSchema,
    total_rows_written,
    written,     \* the rows write_table has written to the output
    rwLog,       \* history: opens, closes, row group of the open, errors
    \* ---- split_patent_documents (one call) ----
    spPc,        \* "idle" | "call" | "returned"
    spSpans,     \* the well-formed patent documents the text is made of
    spText,      \* the argument xml_content
    spResult,    \* the list the call returned
    \* ---- extract_data (one call) ----
    exPc,        \* "idle" | "call" | "returned"
    exDoc,       \* the patent document behind the argument xml_string
    exResult,    \* the dict the call returned, or the exception it raised
    \* ---- chunk_text (one call) ----
    ckPc,        \* "idle" | "loop" | "returned"
    ckTokens,    \* tokens = tokenizer.encode(text)
    ckMax,       \* the argument max_tokens
    ckOverlap,   \* the argument overlap
    ckStart,     \* the local start
    chunks,      \* the list chunks
    \* ---- embed_document and process_key (one call) ----
    emPc,        \* "idle" | "embed_document" | "process_key", and once
                 \* the call is over "embedded" | "processed"
    emDoc,       \* process_key: the document behind the key
    emText,      \* the argument text of embed_document
    emEnv,       \* what the NLTK resources, the tokenizer and the encoder do
    emResult,    \* the value the call ended with
    \* ---- the name of a weekly EPO archive (both EPO scripts) ----
    nmPc,        \* "idle" | "backfill" | "scraper" | "done"
    nmYear,      \* the year of the backfill loop
    nmWeek,      \* the week of the backfill loop
    nmExt,       \* the extension of the backfill loop
    nmBuilt,     \* backfill: the archive name and the XML folder it built
    nmDerived,   \* scraper: the year, week and XML folder it derived
    \* ---- epo_extract_xml: the backfill of one week, run after run ----
    bfPc,        \* position in __main__ and in extract_and_upload
    bfStored,    \* the extensions under which the archive is in S3
    bfEntries,   \* the names inside the inner zips of the archive
    bfExtIx,     \* position of the loop over [".zip", ".tar"]
    bfKey,       \* the argument archive_key of extract_and_upload
    bfIx,        \* number of inner names the walk has taken
    bfFolder,    \* the keys under the destination folder, by file name
    bfRun,       \* the run of the script; 0 for a single call of
                 \* extract_and_upload
    bfLog,       \* what the run printed last, and the names it uploaded
    \* ---- epo_s3: download_and_process_latest_file, run after run ----
    scPc,        \* position in the function
    scFile,      \* the name of the latest file the page lists
    scEntries,   \* the names inside the inner zips of that file
    scRaw,       \* whether the raw archive is in S3 under its archive key
    scIx,        \* number of inner names the walk has taken
    scFolder,    \* the keys under the XML folder, by file name
    scRun,       \* the run of the script
    scLog,       \* what the run printed last, and the names it uploaded
    \* ---- uspto_scraper: the loop of __main__ over the listed files ----
    mnPc,        \* position in the loop
    mnLinks,     \* the file names of the download links of the page
    mnI,         \* the loop variable i
    mnRaw,       \* the raw zip keys in S3
    mnParquet,   \* the Parquet keys in S3
    mnNow        \* the file of the current iteration: what S3 held when
                 \* the iteration began, and what was done for the file

varsParse   == <<pxPc, pxDoc, pxResult>>
varsYear    == <<yrPc, yrBucket, yrI, batch, txn, committed,
                 total_records_inserted, attempts>>
varsPool    == <<plPc, plDocs, futures, records, plI>>
varsUspto   == <<usPc, usKey, usLocal, usArchive, usHead, usFileIx,
                 consolidated_records, usParquet, usReturn>>
varsRewrite == <<rwPc, rwSource, rwI, writer, writerSchema,
                 total_rows_written, written, rwLog>>
varsSplit   == <<spPc, spSpans, spText, spResult>>
varsExtract == <<exPc, exDoc, exResult>>
varsChunk   == <<ckPc, ckTokens, ckMax, ckOverlap, ckStart, chunks>>
varsEmbed   == <<emPc, emDoc, emText, emEnv, emResult>>
varsFunctions == <<varsSplit, varsExtract, varsChunk, varsEmbed>>
varsNames   == <<nmPc, nmYear, nmWeek, nmExt, nmBuilt, nmDerived>>
varsBackfill == <<bfPc, bfStored, bfEntries, bfExtIx, bfKey, bfIx, bfFolder,
                  bfRun, bfLog>>
varsScraper  == <<scPc, scFile, scEntries, scRaw, scIx, scFolder, scRun,
                  scLog>>
varsMain     == <<mnPc, mnLinks, mnI, mnRaw, mnParquet, mnNow>>
varsArchives == <<varsNames, varsBackfill, varsScraper, varsMain>>
vars == <<varsParse, varsYear, varsPool, varsUspto, varsRewrite,
          varsFunctions, varsArchives>>

\* the variables of the other jobs
othersParse   == <<varsYear, varsPool, varsUspto, varsRewrite,
                   varsFunctions, varsArchives>>
othersYear    == <<varsParse, varsPool, varsUspto, varsRewrite,
                   varsFunctions, varsArchives>>
othersPool    == <<varsParse, varsYear, varsUspto, varsRewrite,
                   varsFunctions, varsArchives>>
othersUspto   == <<varsParse, varsYear, varsPool, varsRewrite,
                   varsFunctions, varsArchives>>
othersRewrite == <<varsParse, varsYear, varsPool, varsUspto,
                   varsFunctions, varsArchives>>
varsJobs      == <<varsParse, varsYear, varsPool, varsUspto, varsRewrite>>
othersSplit   == <<varsJobs, varsArchives, varsExtract, varsChunk, varsEmbed>>
othersExtract == <<varsJobs, varsArchives, varsSplit, varsChunk, varsEmbed>>
othersChunk   == <<varsJobs, varsArchives, varsSplit, varsExtract, varsEmbed>>
othersEmbed   == <<varsJobs, varsArchives, varsSplit, varsExtract, varsChunk>>
othersNames   == <<varsJobs, varsFunctions, varsBackfill, varsScraper,
                   varsMain>>
othersBackfill == <<varsJobs, varsFunctions, varsNames, varsScraper,
                    varsMain>>
othersScraper == <<varsJobs, varsFunctions, varsNames, varsBackfill,
                   varsMain>>
othersMain    == <<varsJobs, varsFunctions, varsNames, varsBackfill,
                   varsScraper>>

(***************************************************************************)
(* Strings are sequences of one-character strings.                         *)
(***************************************************************************)
SP  == " "
\* "7" is a decimal digit; "^2" stands for U+00B2 (superscript two), for
\* which str.isdigit() is True and int() raises ValueError; "a" is a letter.
Chars        == {SP, "7", "a", "^2"}
IsDigitChars == {"7", "^2"}
DecimalChars == {"7"}

MaxAttrLen == 2

RECURSIVE LStrip(_)
LStrip(s) == IF s # <<>> /\ Head(s) = SP THEN LStrip(Tail(s)) ELSE s

RECURSIVE RStrip(_)
RStrip(s) == IF s # <<>> /\ s[Len(s)] = SP
             THEN RStrip(SubSeq(s, 1, Len(s) - 1)) ELSE s

\* str.strip()
Strip(s) == RStrip(LStrip(s))

\* str.isdigit(): non-empty and every character a digit character
IsDigit(s) == s # <<>> /\ \A i \in 1..Len(s) : s[i] \in IsDigitChars

\* int(s) succeeds on a stripped all-decimal string
IntParses(s) == s # <<>> /\ \A i \in 1..Len(s) : s[i] \in DecimalChars

DigitValue(c) == IF c = "7" THEN 7 ELSE 0

RECURSIVE IntOf(_)
IntOf(s) == IF s = <<>> THEN 0
            ELSE 10 * IntOf(SubSeq(s, 1, Len(s) - 1)) + DigitValue(s[Len(s)])

\* s[:n]
Prefix(s, n) == SubSeq(s, 1, IF Len(s) < n THEN Len(s) ELSE n)

RECURSIVE SeqsUpTo(_, _)
SeqsUpTo(S, n) == IF n = 0 THEN {<<>>}
                  ELSE LET shorter == SeqsUpTo(S, n - 1)
                       IN shorter \cup {Append(s, c) : s \in shorter, c \in S}

(***************************************************************************)
(* parse_xml: the document behind a key.                                   *)
(***************************************************************************)
\* Python's None
None == [kind |-> "None"]

\* a root attribute that is not there
NoAttr == <<"<no attribute>">>
\* Element.text of an element without character data
NoText == <<"<None>">>

NoElement        == [exists |-> FALSE, text |-> NoText]
Element(t)       == [exists |-> TRUE,  text |-> t]

\* root.attrib.get(name, "")
AttribGet(a) == IF a = NoAttr THEN <<>> ELSE a

AttrValues == SeqsUpTo(Chars, MaxAttrLen) \cup {NoAttr}

AnumText == <<"a", "7">>
DateText == <<SP, "2", "0", "2", "3", "0", "6", "1", "5">>

AnumElements == {NoElement, Element(NoText), Element(AnumText)}
DateElements == {NoElement, Element(NoText), Element(DateText)}

MaxIpc    == 3
MaxTitles == 2

\* Element.text of the 'text' elements under classification-ipcr, of the
\* B541 elements and of the B542 elements
IpcTexts   == {NoText, <<SP>>, <<"H", "0", "4", "L">>,
               <<SP, "G", "0", "6", "F", SP>>}
LangTexts  == {NoText, <<"e", "n">>, <<"E", "N">>, <<SP, "d", "e", SP>>,
               <<"F", "r">>, <<"i", "t">>}
TitleTexts == {NoText, <<"W">>, <<SP, "V", SP>>}

\* root.find(".//B540"): the first B540 with its B541 and B542 children,
\* each kind in document order
NoB540 == [exists |-> FALSE, langs |-> <<>>, texts |-> <<>>]
B540(langs, texts) == [exists |-> TRUE, langs |-> langs, texts |-> texts]

WellFormedDocs ==
    [fetch : {"ok"}, wellformed : {TRUE},
     id : AttrValues, docnum : AttrValues,
     anum : AnumElements, date_pub : DateElements, date_filing : DateElements,
     ipc : {<<>>}, b540 : {NoB540}]

\* get_object raises (missing key, no access, network)
FetchErrorDoc ==
    [fetch |-> "error", wellformed |-> FALSE, id |-> NoAttr, docnum |-> NoAttr,
     anum |-> NoElement, date_pub |-> NoElement, date_filing |-> NoElement,
     ipc |-> <<>>, b540 |-> NoB540]

\* ET.fromstring raises ParseError
MalformedDoc == [FetchErrorDoc EXCEPT !.fetch = "ok"]

Docs == WellFormedDocs \cup {FetchErrorDoc, MalformedDoc}

Raised(e) == [kind |-> "raised", exc |-> e]

\* the test of line 46
RequiredMissingNoIdCheck(doc_id, doc_number_str) ==
    doc_number_str = <<>> \/ ~IsDigit(doc_number_str)

RequiredMissing(doc_id, doc_number_str) ==
    doc_id = <<>> \/ doc_number_str = <<>> \/ ~IsDigit(doc_number_str)

\* `el.text.strip() if el is not None else ""` (lines 82, 102, 105)
\* the texts of all elements, '' for an element without text
RECURSIVE TextsWithBlanks(_)
TextsWithBlanks(els) ==
    IF els = <<>> THEN <<>>
    ELSE <<IF Head(els) = NoText THEN <<>> ELSE Strip(Head(els))>>
         \o TextsWithBlanks(Tail(els))

\* line 76: [el.text.strip() for el in ipc_elements
\*           if el is not None and el.text]
RECURSIVE StrippedTexts(_)
StrippedTexts(els) ==
    IF els = <<>> THEN <<>>
    ELSE (IF Head(els) # NoText /\ Head(els) # <<>>
          THEN <<Strip(Head(els))>> ELSE <<>>)
         \o StrippedTexts(Tail(els))

\* sep.join(list)
RECURSIVE Join(_, _)
Join(list, sep) ==
    IF list = <<>> THEN <<>>
    ELSE IF Len(list) = 1 THEN Head(list)
    ELSE Head(list) \o sep \o Join(Tail(list), sep)

\* lines 75-77
IpcClassifications(doc) == Join(StrippedTexts(doc.ipc), <<";", SP>>)

\* a comparison of the language code as it is written
NotLowered(s) == s

\* str.lower()
Lower(s) ==
    [i \in 1..Len(s) |->
        CASE s[i] = "D" -> "d" [] s[i] = "E" -> "e" [] s[i] = "F" -> "f"
          [] s[i] = "N" -> "n" [] s[i] = "R" -> "r" [] s[i] = "Z" -> "z"
          [] s[i] = "I" -> "i" [] s[i] = "P" -> "p" [] s[i] = "A" -> "a"
          [] s[i] = "B" -> "b" [] s[i] = "J" -> "j" [] s[i] = "T" -> "t"
          [] s[i] = "V" -> "v" [] OTHER -> s[i]]

\* lines 93-94: x.text.strip() if x.text else ""
StripOrEmpty(t) == IF t # NoText /\ t # <<>> THEN Strip(t) ELSE <<>>

\* lines 92-97: the loop over zip(langs, texts), from pair k on
RECURSIVE TitlesFrom(_, _, _, _)
TitlesFrom(titles, langs, texts, k) ==
    IF k > Len(langs) \/ k > Len(texts) THEN titles
    ELSE LET lang == StripOrEmpty(langs[k])
             text == StripOrEmpty(texts[k])
             next ==
               IF Lower(lang) = <<"e", "n">>
               THEN [titles EXCEPT !.title_en = text]
               ELSE IF Lower(lang) = <<"d", "e">>
               THEN [titles EXCEPT !.title_de = text]
               ELSE IF Lower(lang) = <<"f", "r">>
               THEN [titles EXCEPT !.title_fr = text]
               ELSE titles
         IN TitlesFrom(next, langs, texts, k + 1)

\* lines 87-97
Titles(doc) ==
    LET titles == [title_en |-> <<>>, title_de |-> <<>>, title_fr |-> <<>>]
    IN IF ~doc.b540.exists THEN titles
       ELSE TitlesFrom(titles, doc.b540.langs, doc.b540.texts, 1)

TextRaises(el) == el.exists /\ el.text = NoText
TextOrEmpty(el) == IF el.exists THEN Strip(el.text) ELSE <<>>

\* the body of the try block of parse_xml, in statement order
ParseXmlBody(doc) ==
    IF doc.fetch = "error" THEN Raised("ClientError")
    ELSE IF ~doc.wellformed THEN Raised("ParseError")
    ELSE
      LET doc_id         == Strip(AttribGet(doc.id))
          doc_number_str == Strip(AttribGet(doc.docnum))
      IN
      IF RequiredMissing(doc_id, doc_number_str) THEN None
      ELSE IF ~IntParses(doc_number_str) THEN Raised("ValueError")
      ELSE IF TextRaises(doc.anum) THEN Raised("AttributeError")
      ELSE IF TextRaises(doc.date_pub) THEN Raised("AttributeError")
      ELSE IF TextRaises(doc.date_filing) THEN Raised("AttributeError")
      ELSE
        [kind |-> "record",
         doc_id |-> doc_id,
         doc_number |-> IntOf(doc_number_str),
         ipc_classifications |-> IpcClassifications(doc),
         title_en |-> Titles(doc).title_en,
         title_de |-> Titles(doc).title_de,
         title_fr |-> Titles(doc).title_fr,
         international_application_number |-> TextOrEmpty(doc.anum),
         date_publication |-> TextOrEmpty(doc.date_pub),
         year_publication |-> Prefix(TextOrEmpty(doc.date_pub), 4),
         date_filing |-> TextOrEmpty(doc.date_filing),
         year_filing |-> Prefix(TextOrEmpty(doc.date_filing), 4)]

\* `except Exception`: every exception the body can raise is an Exception
CaughtOnlyParseError(e) == e = "ParseError"

Caught(e) == e \in {"ClientError", "ParseError", "ValueError", "AttributeError"}

\* parse_xml(s3_client, key)
ParseXml(doc) ==
    LET out == ParseXmlBody(doc)
    IN IF out.kind = "raised" /\ Caught(out.exc) THEN None ELSE out

\* lines 110-151 of epo_parse_xml: the keys of the returned dict whose
\* values are not computed here
OtherRecordKeys ==
    {"lang", "country", "abstract", "description", "claims",
     "cpc_classifications", "applicants", "inventors", "int_classifications",
     "priority_number", "priority_date", "representatives",
     "correction_code", "correction_description", "references_cited",
     "proprietors"}

\* the keys of a record parse_xml of epo_parse_xml returned
KeysOf(record) == (DOMAIN record \ {"kind"}) \cup OtherRecordKeys

\* insert_query, lines 170-185: the names in %(name)s
InsertParameters ==
    {"doc_id", "title_en", "title_de", "title_fr", "doc_number", "lang",
     "country", "abstract", "description", "claims", "date_publ",
     "ipc_classifications", "cpc_classifications",
     "international_application_number", "applicants", "inventors",
     "int_classifications", "date_publication", "date_filing"}

IdleParse == pxPc = "idle" /\ pxDoc = FetchErrorDoc /\ pxResult = None

InitParseVars == pxPc = "call" /\ pxDoc \in Docs /\ pxResult = None

CallParseXml ==
    /\ pxPc = "call"
    /\ pxResult' = ParseXml(pxDoc)
    /\ pxPc' = "returned"
    /\ UNCHANGED <<pxDoc, othersParse>>

NextParse == CallParseXml

(***************************************************************************)
(* process_year (src/epo_parse_xml.py:160-220).                            *)
(* batch_size is 500 in the source (line 187).  The loop reads it only in  *)
(* `len(batch) >= batch_size`, so the model runs it with a small value and *)
(* treats it as a bound of the model.                                      *)
(***************************************************************************)
batch_size == 2
NumKeys    == 5

\* a document parse_xml returns a record for, and one it discards
GoodDoc == [fetch |-> "ok", wellformed |-> TRUE, id |-> <<"a">>,
            docnum |-> <<"7">>, anum |-> NoElement,
            date_pub |-> Element(DateText), date_filing |-> NoElement,
            ipc |-> <<>>, b540 |-> NoB540]
BadDoc  == [GoodDoc EXCEPT !.id = NoAttr]

\* the objects paginate() lists under "{year}/epo-xmls": XML documents,
\* the TOC.xml of an archive, and other objects (a week's .parquet)
ListedObjects ==
    {[suffix |-> ".xml",     doc |-> GoodDoc],
     [suffix |-> ".xml",     doc |-> BadDoc],
     [suffix |-> "TOC.xml",  doc |-> MalformedDoc],
     [suffix |-> ".parquet", doc |-> MalformedDoc]}

\* key.endswith(".xml") and not key.endswith("TOC.xml")     (line 193)
EndsWithXml(obj) == obj.suffix \in {".xml", "TOC.xml"}
EndsWithTocXml(obj) == obj.suffix = "TOC.xml"
IsValidXmlKey(obj) == EndsWithXml(obj) /\ ~EndsWithTocXml(obj)

\* `if data:`  (a record is a non-empty dict)
Truthy(data) == data # None

Range(s) == {s[i] : i \in 1..Len(s)}

IdleYear ==
    /\ yrPc = "idle" /\ yrBucket = <<>> /\ yrI = 0 /\ batch = <<>>
    /\ txn = <<>> /\ committed = {} /\ total_records_inserted = 0
    /\ attempts = <<>>

InitYearVars ==
    /\ yrPc = "loop"
    /\ yrBucket \in [1..NumKeys -> ListedObjects]
    /\ yrI = 0 /\ batch = <<>> /\ txn = <<>> /\ committed = {}
    /\ total_records_inserted = 0 /\ attempts = <<>>

\* lines 190-197: one iteration of the key loop up to the size test
TakeKey ==
    /\ yrPc = "loop" /\ yrI < Len(yrBucket)
    /\ yrI' = yrI + 1
    /\ LET k    == yrI + 1
           data == ParseXml(yrBucket[k].doc)
       IN IF IsValidXmlKey(yrBucket[k]) /\ Truthy(data)
          THEN /\ batch' = Append(batch, k)
               /\ yrPc' = IF Len(batch) + 1 >= batch_size
                          THEN "execute" ELSE "loop"
          ELSE UNCHANGED <<batch, yrPc>>
    /\ UNCHANGED <<othersYear, yrBucket, txn, committed,
                   total_records_inserted, attempts>>

\* execute_batch(cursor, insert_query, batch): all rows executed, or an
\* exception after some of them
ExecuteBatch(at, okPc, excPc) ==
    /\ attempts' = Append(attempts,
                          [rows |-> batch, at |-> at, result |-> "pending"])
    /\ \/ txn' = batch /\ yrPc' = okPc
       \/ \E n \in 0..(Len(batch) - 1) :
            txn' = SubSeq(batch, 1, n) /\ yrPc' = excPc
    /\ UNCHANGED <<othersYear, yrBucket, yrI, batch, committed,
                   total_records_inserted>>

\* history: how the last attempt ended
MarkLast(r) == [attempts EXCEPT ![Len(attempts)].result = r]

\* conn.commit() raising
CommitFails(excPc) ==
    /\ yrPc' = excPc
    /\ UNCHANGED <<othersYear, yrBucket, yrI, batch, txn, committed,
                   total_records_inserted, attempts>>

\* conn.rollback()
Rollback == txn' = <<>>

\* line 199
LoopExecute == yrPc = "execute" /\ ExecuteBatch("loop", "commit", "except")

\* lines 200-203
LoopCommit ==
    /\ yrPc = "commit"
    /\ \/ /\ committed' = committed \cup Range(txn)
          /\ txn' = <<>>
          /\ total_records_inserted' = total_records_inserted + Len(batch)
          /\ batch' = <<>>
          /\ yrPc' = "loop"
          /\ attempts' = MarkLast("committed")
          /\ UNCHANGED <<othersYear, yrBucket, yrI>>
       \/ CommitFails("except")

\* the handler re-raising instead of containing the error
LoopInsertErrorEscapes ==
    /\ yrPc = "except"
    /\ Rollback
    /\ yrPc' = "raised"
    /\ attempts' = MarkLast("rolled back")
    /\ UNCHANGED <<othersYear, yrBucket, yrI, batch, committed,
                   total_records_inserted>>

\* lines 204-206
LoopInsertError ==
    /\ yrPc = "except"
    /\ Rollback
    /\ yrPc' = "loop"
    /\ attempts' = MarkLast("rolled back")
    /\ UNCHANGED <<othersYear, yrBucket, yrI, batch, committed,
                   total_records_inserted>>

\* a final flush that keeps the size test of the loop
LoopEndFullOnly ==
    /\ yrPc = "loop" /\ yrI = Len(yrBucket)
    /\ yrPc' = IF Len(batch) >= batch_size THEN "final_execute" ELSE "close"
    /\ UNCHANGED <<othersYear, yrBucket, yrI, batch, txn, committed,
                   total_records_inserted, attempts>>

\* line 208: `if batch:` once the pages are exhausted
LoopEnd ==
    /\ yrPc = "loop" /\ yrI = Len(yrBucket)
    /\ yrPc' = IF batch # <<>> THEN "final_execute" ELSE "close"
    /\ UNCHANGED <<othersYear, yrBucket, yrI, batch, txn, committed,
                   total_records_inserted, attempts>>

\* line 210
FinalExecute ==
    yrPc = "final_execute" /\ ExecuteBatch("final", "final_commit", "final_except")

\* lines 211-213
FinalCommit ==
    /\ yrPc = "final_commit"
    /\ \/ /\ committed' = committed \cup Range(txn)
          /\ txn' = <<>>
          /\ total_records_inserted' = total_records_inserted + Len(batch)
          /\ yrPc' = "close"
          /\ attempts' = MarkLast("committed")
          /\ UNCHANGED <<othersYear, yrBucket, yrI, batch>>
       \/ CommitFails("final_except")

\* lines 214-216
FinalInsertError ==
    /\ yrPc = "final_except"
    /\ Rollback
    /\ yrPc' = "close"
    /\ attempts' = MarkLast("rolled back")
    /\ UNCHANGED <<othersYear, yrBucket, yrI, batch, committed,
                   total_records_inserted>>

\* lines 218-220
CloseConnection ==
    /\ yrPc = "close"
    /\ yrPc' = "done"
    /\ UNCHANGED <<othersYear, yrBucket, yrI, batch, txn, committed,
                   total_records_inserted, attempts>>

NextYear ==
    \/ TakeKey \/ LoopExecute \/ LoopCommit \/ LoopInsertError
    \/ LoopEnd \/ FinalExecute \/ FinalCommit \/ FinalInsertError
    \/ CloseConnection

(***************************************************************************)
(* chunk_text (src/epo_to_parquet.py:57-64).  A token is named by its      *)
(* position in the encoded text.                                           *)
(***************************************************************************)
MaxTokens == 6
MaxBudget == 4

\* tokenizer.decode(chunk): the text of a window of tokens
Decode(chunk) == [text_of |-> chunk]

\* line 61: tokens[start:start + max_tokens]
Window(tokens, start, max_tokens) ==
    SubSeq(tokens, start + 1,
           IF start + max_tokens < Len(tokens) THEN start + max_tokens
           ELSE Len(tokens))

\* a step of a whole window
StepWithoutOverlap(max_tokens, overlap) == max_tokens

\* line 63: start += max_tokens - overlap
StepOf(max_tokens, overlap) == max_tokens - overlap

IdleChunk ==
    /\ ckPc = "idle" /\ ckTokens = <<>> /\ ckMax = 1 /\ ckOverlap = 0
    /\ ckStart = 0 /\ chunks = <<>>

\* lines 58-59; the arguments have max_tokens > overlap >= 0
InitChunkVars ==
    /\ ckPc = "loop"
    /\ \E n \in 0..MaxTokens : ckTokens = [i \in 1..n |-> i]
    /\ ckMax \in 1..MaxBudget
    /\ ckOverlap \in 0..(ckMax - 1)
    /\ ckStart = 0 /\ chunks = <<>>

\* lines 60-63: one iteration of the while loop
ChunkStep ==
    /\ ckPc = "loop" /\ ckStart < Len(ckTokens)
    /\ chunks' = Append(chunks, Decode(Window(ckTokens, ckStart, ckMax)))
    /\ ckStart' = ckStart + StepOf(ckMax, ckOverlap)
    /\ UNCHANGED <<ckPc, ckTokens, ckMax, ckOverlap, othersChunk>>

\* line 64: the loop condition fails, return chunks
ChunkReturn ==
    /\ ckPc = "loop" /\ ~(ckStart < Len(ckTokens))
    /\ ckPc' = "returned"
    /\ UNCHANGED <<ckTokens, ckMax, ckOverlap, ckStart, chunks, othersChunk>>

NextChunk == ChunkStep \/ ChunkReturn

\* chunk_text(text, max_tokens, overlap) as a function of the tokens: the
\* chunks the loop appends from `start` on
RECURSIVE ChunkList(_, _, _, _)
ChunkList(tokens, start, max_tokens, overlap) ==
    IF ~(start < Len(tokens)) THEN <<>>
    ELSE <<Decode(Window(tokens, start, max_tokens))>>
         \o ChunkList(tokens, start + StepOf(max_tokens, overlap),
                      max_tokens, overlap)

(***************************************************************************)
(* embed_document and process_key (src/epo_to_parquet.py:48-77, 188-200).  *)
(* A text is a sequence of words and has one token per word.  TARGET_DIM   *)
(* is 1024 in the source (line 42); the code reads it only as the length   *)
(* of the zero vector, so the model runs it with a small value and treats  *)
(* it as a bound of the model.  The encoder's vectors have TARGET_DIM      *)
(* components.                                                             *)
(***************************************************************************)
CHUNK_TOKENS   == 2000
OVERLAP_TOKENS == 200
TARGET_DIM     == 3

EN_STOPWORDS == {"the"}

\* lines 51-52: lower-cased, characters that are neither word characters
\* nor whitespace removed; '' when nothing is left
Normalized(w) ==
    CASE w = "The" -> "the" [] w = "Widgets" -> "widgets" [] w = "--" -> ""
      [] w = "Title:" -> "title" [] w = "Abstract:" -> "abstract"
      [] w = "Description:" -> "description"
      [] w = "Applicants:" -> "applicants" [] w = "Inventors:" -> "inventors"
      [] OTHER -> w

\* LEMMATIZER.lemmatize(w)
Lemma(w) ==
    CASE w = "widgets" -> "widget" [] w = "applicants" -> "applicant"
      [] w = "inventors" -> "inventor" [] OTHER -> w

\* lines 53-55: the words that are left and are no stop words, lemmatized
RECURSIVE Lemmatized(_)
Lemmatized(words) ==
    IF words = <<>> THEN <<>>
    ELSE (IF Normalized(Head(words)) \in EN_STOPWORDS \cup {""} THEN <<>>
          ELSE <<Lemma(Normalized(Head(words)))>>)
         \o Lemmatized(Tail(words))

\* preprocess_text(text); NoText is None, for which pd.isna holds
PreprocessText(text) ==
    IF text = NoText THEN <<"No", "text", "provided">> ELSE Lemmatized(text)

Texts == {NoText, <<>>, <<"The">>, <<"--">>, <<"Widgets">>,
          <<"The", "Widgets">>}

\* the vectors the encoder gives; the components are multiples of 6
Vectors == [1..TARGET_DIM -> {0, 6}]

\* what the calls inside embed_document do: preprocess_text raises when an
\* NLTK resource is missing, the tokenizer may reject the text, the encoder
\* may fail (on an empty list of chunks some versions raise, others give no
\* vector)
EmbedEnvs ==
    [preprocess : {"ok", "LookupError"}, chunk : {"ok", "ValueError"},
     encode : {"ok", "RuntimeError"}, vector : Vectors]

\* [0.0] * TARGET_DIM
ZeroVector == [d \in 1..TARGET_DIM |-> 0]

RECURSIVE SumAt(_, _)
SumAt(vectors, d) ==
    IF vectors = <<>> THEN 0
    ELSE Head(vectors)[d] + SumAt(Tail(vectors), d)

\* line 73: [sum(x) / len(x) for x in zip(*vectors)]
MeanPool(vectors) ==
    [d \in 1..Len(vectors[1]) |-> SumAt(vectors, d) \div Len(vectors)]

List(v) == [kind |-> "list", value |-> v]

\* lines 68-74: the body of the try statement
EmbedBody(text, env) ==
    IF env.preprocess # "ok" THEN Raised(env.preprocess)
    ELSE IF env.chunk # "ok" THEN Raised(env.chunk)
    ELSE IF env.encode # "ok" THEN Raised(env.encode)
    ELSE LET chunks_ == ChunkList(PreprocessText(text), 0, CHUNK_TOKENS,
                                  OVERLAP_TOKENS)
             vectors == [i \in 1..Len(chunks_) |-> env.vector]
         IN IF vectors # <<>> THEN List(MeanPool(vectors))
            ELSE List(ZeroVector)

\* a handler for the encoder's errors only
EmbedCaughtEncoderOnly(e) == e = "RuntimeError"

\* line 75: `except Exception`
EmbedCaught(e) == e \in {"LookupError", "ValueError", "RuntimeError"}

\* embed_document(text)
EmbedDocument(text, env) ==
    LET out == EmbedBody(text, env)
    IN IF out.kind = "raised" /\ EmbedCaught(out.exc) THEN List(ZeroVector)
       ELSE out

\* lines 192-198: the five labelled lines of full_text; the fields'
\* values, further words, are left out
FullText(data) ==
    <<"Title:", "Abstract:", "Description:", "Applicants:", "Inventors:">>

\* process_key(key) (lines 188-200)
ProcessKeyIn(doc, env) ==
    LET data == ParseXml(doc)
    IN IF data.kind # "record" THEN data
       ELSE LET e == EmbedDocument(FullText(data), env)
            IN IF e.kind = "raised" THEN e
               ELSE data @@ [embedding |-> e.value]

IdleEmbed ==
    /\ emPc = "idle" /\ emDoc = FetchErrorDoc /\ emText = NoText
    /\ emEnv = [preprocess |-> "ok", chunk |-> "ok", encode |-> "ok",
                vector |-> ZeroVector]
    /\ emResult = None

EmbedKeyDocs ==
    {GoodDoc, BadDoc, MalformedDoc,
     [GoodDoc EXCEPT !.b540 = B540(<<<<"e", "n">>>>, <<<<"W">>>>)]}

InitEmbedVars ==
    /\ emEnv \in EmbedEnvs
    /\ emResult = None
    /\ \/ emPc = "embed_document" /\ emText \in Texts /\ emDoc = FetchErrorDoc
       \/ emPc = "process_key" /\ emText = NoText /\ emDoc \in EmbedKeyDocs

CallEmbedDocument ==
    /\ emPc = "embed_document"
    /\ emResult' = EmbedDocument(emText, emEnv)
    /\ emPc' = "embedded"
    /\ UNCHANGED <<emDoc, emText, emEnv, othersEmbed>>

CallProcessKey ==
    /\ emPc = "process_key"
    /\ emResult' = ProcessKeyIn(emDoc, emEnv)
    /\ emText' = IF ParseXml(emDoc).kind = "record"
                 THEN FullText(ParseXml(emDoc)) ELSE emText
    /\ emPc' = "processed"
    /\ UNCHANGED <<emDoc, emEnv, othersEmbed>>

NextEmbed == CallEmbedDocument \/ CallProcessKey

(***************************************************************************)
(* main of epo_to_parquet (src/epo_to_parquet.py:203-239): the thread      *)
(* pool.  MAX_WORKERS is 8 in the source (line 28); the pool reads it only *)
(* as the number of worker threads, so the model runs it with a small      *)
(* value and treats it as a bound of the model.                            *)
(***************************************************************************)
MAX_WORKERS == 2
NumPoolKeys == 4

PoolKeys == 1..NumPoolKeys

\* process_key(key): None when parse_xml discards, else the record with
\* its embedding attached (lines 188-200); in the pool the tokenizer and
\* the encoder work
ProcessKey(doc) ==
    ProcessKeyIn(doc, [preprocess |-> "ok", chunk |-> "ok", encode |-> "ok",
                       vector |-> [d \in 1..TARGET_DIM |-> 6]])

NoFuture == [state |-> "unsubmitted", outcome |-> "-", yielded |-> FALSE]

Running == {k \in PoolKeys : futures[k].state = "running"}
Pending == {k \in PoolKeys : futures[k].state = "pending"}

IdlePool ==
    /\ plPc = "idle" /\ plDocs = <<>>
    /\ futures = [k \in PoolKeys |-> NoFuture]
    /\ records = <<>> /\ plI = 0

InitPoolVars ==
    /\ plPc = "submit"
    /\ plDocs \in [PoolKeys -> {GoodDoc, BadDoc}]
    /\ futures = [k \in PoolKeys |-> NoFuture]
    /\ records = <<>>
    /\ plI = 0

\* line 216: executor.submit(process_key, key) for the keys in order; the
\* as_completed loop starts once every key is submitted
Submit ==
    /\ plPc = "submit"
    /\ \E k \in PoolKeys :
         /\ futures[k].state = "unsubmitted"
         /\ \A j \in PoolKeys : j < k => futures[j].state # "unsubmitted"
         /\ futures' = [futures EXCEPT ![k].state = "pending"]
         /\ plPc' = IF k = NumPoolKeys THEN "collect" ELSE "submit"
    /\ UNCHANGED <<othersPool, plDocs, records, plI>>

\* a pool without the max_workers limit
MayStartUnbounded(k) ==
    /\ futures[k].state = "pending"
    /\ \A j \in Pending : k <= j

\* line 215: ThreadPoolExecutor(max_workers=MAX_WORKERS): a free worker
\* thread takes the oldest queued work item
MayStart(k) ==
    /\ futures[k].state = "pending"
    /\ \A j \in Pending : k <= j
    /\ Cardinality(Running) < MAX_WORKERS

WorkerStart ==
    /\ plPc \in {"submit", "collect"}
    /\ \E k \in PoolKeys :
         /\ MayStart(k)
         /\ futures' = [futures EXCEPT ![k].state = "running"]
    /\ UNCHANGED <<othersPool, plPc, plDocs, records, plI>>

\* process_key returns, or raises (an error outside the two guarded calls)
WorkerFinish ==
    /\ plPc \in {"submit", "collect"}
    /\ \E k \in Running :
         \E out \in {ProcessKey(plDocs[k]).kind, "exception"} :
            futures' = [futures EXCEPT ![k].state = "finished",
                                       ![k].outcome = out]
    /\ UNCHANGED <<othersPool, plPc, plDocs, records, plI>>

\* appending whatever a future that did not raise returned
RecordsAfterNoTruthTest(k) ==
    IF futures[k].outcome # "exception"
    THEN Append(records, [key |-> k, data |-> ProcessKey(plDocs[k])])
    ELSE records

\* lines 219-224: result = future.result(); `if result:` append; an
\* exception is printed
RecordsAfter(k) ==
    IF futures[k].outcome = "record"
    THEN Append(records, [key |-> k, data |-> ProcessKey(plDocs[k])])
    ELSE records

\* lines 217-226: as_completed yields a finished future
Collect ==
    /\ plPc = "collect"
    /\ \E k \in PoolKeys :
         /\ futures[k].state = "finished" /\ ~futures[k].yielded
         /\ futures' = [futures EXCEPT ![k].yielded = TRUE]
         /\ records' = RecordsAfter(k)
    /\ plI' = plI + 1
    /\ UNCHANGED <<othersPool, plPc, plDocs>>

\* the end of the `with` block: every future was yielded, shutdown(wait=True)
ExitPool ==
    /\ plPc = "collect"
    /\ \A k \in PoolKeys : futures[k].yielded
    /\ plPc' = "exited"
    /\ UNCHANGED <<othersPool, plDocs, futures, records, plI>>

NextPool == Submit \/ WorkerStart \/ WorkerFinish \/ Collect \/ ExitPool

(***************************************************************************)
(* main of epo_2022_2024 (src/epo_2022_2024.py:13-67): chunked rewrite.    *)
(***************************************************************************)
NumGroups == 3

DigitCode(c) ==
    CASE c = "0" -> 0 [] c = "1" -> 1 [] c = "2" -> 2 [] c = "3" -> 3
      [] c = "4" -> 4 [] c = "5" -> 5 [] c = "6" -> 6 [] c = "7" -> 7
      [] c = "8" -> 8 [] c = "9" -> 9

\* Python's a <= b on strings: lexicographic, a proper prefix is smaller
RECURSIVE StrLeq(_, _)
StrLeq(a, b) ==
    IF a = <<>> THEN TRUE
    ELSE IF b = <<>> THEN FALSE
    ELSE IF DigitCode(Head(a)) < DigitCode(Head(b)) THEN TRUE
    ELSE IF DigitCode(Head(a)) > DigitCode(Head(b)) THEN FALSE
    ELSE StrLeq(Tail(a), Tail(b))

DateLow  == <<"2", "0", "2", "2", "0", "1", "0", "1">>    \* '20220101'
DateHigh == <<"2", "0", "2", "4", "1", "2", "3", "1">>    \* '20241231'
DateBefore == <<"2", "0", "2", "1", "1", "2", "3", "1">>  \* '20211231'
DateAfter  == <<"2", "0", "2", "5", "0", "1", "0", "1">>  \* '20250101'
DateEmpty  == <<>>                                        \* ''

\* the predicate with both bounds excluded
InRangeExclusive(d) ==
    StrLeq(DateLow, d) /\ StrLeq(d, DateHigh) /\ d # DateLow /\ d # DateHigh

\* lines 27-30: the predicate of the filter
InRange(d) == StrLeq(DateLow, d) /\ StrLeq(d, DateHigh)

\* df_chunk[...]: the rows that satisfy the predicate, in their order
RECURSIVE Filtered(_)
Filtered(rows) ==
    IF rows = <<>> THEN <<>>
    ELSE IF InRange(Head(rows)) THEN <<Head(rows)>> \o Filtered(Tail(rows))
    ELSE Filtered(Tail(rows))

\* a row is its date_publication; a row group has rows and, once turned
\* into a pyarrow table, a schema
RowShapes == {<<>>, <<DateBefore>>, <<DateLow>>, <<DateAfter, DateHigh>>,
              <<DateEmpty, DateAfter>>}
Schemas   == {"schema1", "schema2"}
RowGroups == [schema : Schemas, rows : RowShapes]

NoLog == [opens |-> 0, closes |-> 0, openedAt |-> 0, error |-> FALSE,
          noData |-> FALSE, lateWrites |-> 0, ioFailed |-> FALSE,
          writeCalls |-> <<>>]

IdleRewrite ==
    /\ rwPc = "idle" /\ rwSource = <<>> /\ rwI = 0 /\ writer = "None"
    /\ writerSchema = "-" /\ total_rows_written = 0 /\ written = <<>>
    /\ rwLog = NoLog

InitRewriteVars ==
    /\ rwPc = "open_input"
    /\ \E n \in 0..NumGroups : rwSource \in [1..n -> RowGroups]
    /\ rwI = 0 /\ writer = "None" /\ writerSchema = "-"
    /\ total_rows_written = 0 /\ written = <<>> /\ rwLog = NoLog

\* line 21: pq.ParquetFile(...) opens the input, or raises
OpenInput ==
    /\ rwPc = "open_input"
    /\ \/ rwPc' = "loop" /\ UNCHANGED rwLog
       \/ rwPc' = "except" /\ rwLog' = [rwLog EXCEPT !.ioFailed = TRUE]
    /\ UNCHANGED <<othersRewrite, rwSource, rwI, writer, writerSchema,
                   total_rows_written, written>>

\* writing every chunk, matching rows or not
ChunkAlwaysWritten(df_filtered) == TRUE

\* line 34: `if not df_filtered.empty`
ChunkHasData(df_filtered) == df_filtered # <<>>

\* opening a writer for every chunk
NeedsOpenAlways == TRUE

\* line 42: `if writer is None`
NeedsOpen == writer = "None"

\* lines 24-52: one iteration of the row-group loop.  read_row_group, the
\* opening of the writer and write_table may each raise; write_table raises
\* when the table's schema is not the writer's.
Iterate ==
    /\ rwPc = "loop" /\ rwI < Len(rwSource)
    /\ LET g           == rwSource[rwI + 1]
           df_filtered == Filtered(g.rows)
           opening     == NeedsOpen
           schemaAfter == IF opening THEN g.schema ELSE writerSchema
           logOpened   == IF opening
                          THEN [rwLog EXCEPT !.opens = @ + 1,
                                             !.openedAt = rwI + 1]
                          ELSE rwLog
       IN
       \/ \* read_row_group raises
          /\ rwPc' = "except"
          /\ rwLog' = [rwLog EXCEPT !.ioFailed = TRUE]
          /\ UNCHANGED <<rwI, writer, writerSchema, total_rows_written, written>>
       \/ \* no matching row
          /\ ~ChunkHasData(df_filtered)
          /\ rwI' = rwI + 1
          /\ UNCHANGED <<rwPc, writer, writerSchema, total_rows_written,
                         written, rwLog>>
       \/ \* matching rows, the writer cannot be opened
          /\ ChunkHasData(df_filtered) /\ opening
          /\ total_rows_written' = total_rows_written + Len(df_filtered)
          /\ rwPc' = "except"
          /\ rwLog' = [rwLog EXCEPT !.ioFailed = TRUE]
          /\ UNCHANGED <<rwI, writer, writerSchema, written>>
       \/ \* matching rows, write_table raises
          /\ ChunkHasData(df_filtered)
          /\ total_rows_written' = total_rows_written + Len(df_filtered)
          /\ writer' = IF opening THEN "open" ELSE writer
          /\ writerSchema' = schemaAfter
          /\ rwPc' = "except"
          /\ rwLog' = [logOpened EXCEPT !.ioFailed = TRUE]
          /\ UNCHANGED <<rwI, written>>
       \/ \* matching rows written
          /\ ChunkHasData(df_filtered)
          /\ g.schema = schemaAfter
          /\ total_rows_written' = total_rows_written + Len(df_filtered)
          /\ writer' = IF opening THEN "open" ELSE writer
          /\ writerSchema' = schemaAfter
          /\ written' = written \o df_filtered
          /\ rwLog' = [logOpened EXCEPT
                         !.lateWrites = IF writer = "closed" THEN @ + 1 ELSE @,
                         !.writeCalls = Append(@, rwI + 1)]
          /\ rwI' = rwI + 1
          /\ UNCHANGED rwPc
    /\ UNCHANGED <<othersRewrite, rwSource>>

\* lines 54-56: after the loop; `return` when nothing matched
LoopDone ==
    /\ rwPc = "loop" /\ rwI = Len(rwSource)
    /\ rwLog' = [rwLog EXCEPT !.noData = (total_rows_written = 0)]
    /\ rwPc' = "finally"
    /\ UNCHANGED <<othersRewrite, rwSource, rwI, writer, writerSchema,
                   total_rows_written, written>>

\* lines 58-59: the error is printed
Except ==
    /\ rwPc = "except"
    /\ rwLog' = [rwLog EXCEPT !.error = TRUE]
    /\ rwPc' = "finally"
    /\ UNCHANGED <<othersRewrite, rwSource, rwI, writer, writerSchema,
                   total_rows_written, written>>

\* lines 60-67: `if writer: writer.close()`
Finally ==
    /\ rwPc = "finally"
    /\ IF writer = "open"
       THEN writer' = "closed" /\ rwLog' = [rwLog EXCEPT !.closes = @ + 1]
       ELSE UNCHANGED <<writer, rwLog>>
    /\ rwPc' = "returned"
    /\ UNCHANGED <<othersRewrite, rwSource, rwI, writerSchema,
                   total_rows_written, written>>

NextRewrite == OpenInput \/ Iterate \/ LoopDone \/ Except \/ Finally

(***************************************************************************)
(* process_uspto_zip_to_parquet (src/uspto_scraper.py:223-350).            *)
(***************************************************************************)
MaxFiles == 2

\* s3_zip_key.split('/') of the keys the function is called with
ZipKeys == {<<"2024", "zipped", "ipg240101.zip">>,
            <<"2024", "zipped", "ipg240101_r1.zip">>,
            <<"2024", "zipped", "patents.zip">>,
            <<"2024", "raw", "ipg240101.zip">>,
            <<"ipg240101.zip">>}

NoMatch == "<no match>"

\* line 242: re.search(r'ipg(\d{6}).*?\.zip', zip_base, re.IGNORECASE)
DatePart(zip_base) ==
    CASE zip_base = "ipg240101.zip"    -> "240101"
      [] zip_base = "ipg240101_r1.zip" -> "240101"
      [] OTHER                         -> NoMatch

\* lines 232-246: the key has the form year/zipped/name with a date part
KeyAccepted(parts) ==
    /\ ~(Len(parts) < 3 \/ parts[Len(parts) - 1] # "zipped")
    /\ DatePart(parts[Len(parts)]) # NoMatch

\* one split patent substring: what extract_data does with it, and the
\* doc-number of its publication-reference (NoField: no document-id)
NoField == "<no key>"
Patent(res, num) == [result |-> res, pub_ref_doc_number |-> num]
OkD1   == Patent("ok", "D1")
OkD2   == Patent("ok", "D2")
OkNone == Patent("ok", NoField)
BadXml == Patent("ParseError", NoField)
BadRec == Patent("Exception", NoField)

Member(suffix, readable, patents) ==
    [suffix |-> suffix, readable |-> readable, patents |-> patents]

\* the members of an archive: other files, XML files that cannot be read
\* or decoded, XML files with their patent substrings
Members ==
    {Member(".txt", TRUE, <<>>),
     Member(".xml", FALSE, <<>>),
     Member(".xml", TRUE, <<>>),
     Member(".xml", TRUE, <<OkD1>>),
     Member(".xml", TRUE, <<OkD1, OkD1>>),
     Member(".xml", TRUE, <<BadXml, OkD2>>),
     Member(".xml", TRUE, <<OkNone, BadRec, OkNone>>),
     Member(".xml", TRUE, <<OkD2, OkNone, OkD1>>)}

\* line 294: [f for f in os.listdir(extract_path) if f.endswith('.xml')]
RECURSIVE XmlFiles(_)
XmlFiles(members) ==
    IF members = <<>> THEN <<>>
    ELSE IF Head(members).suffix = ".xml"
         THEN <<Head(members)>> \o XmlFiles(Tail(members))
         ELSE XmlFiles(Tail(members))

\* a loop that ends at the first substring that raises
RECURSIVE ExtractUntilError(_, _, _)
ExtractUntilError(patents, file, n) ==
    IF patents = <<>> \/ Head(patents).result # "ok" THEN <<>>
    ELSE <<[file |-> file, patent |-> n,
            pub_ref_doc_number |-> Head(patents).pub_ref_doc_number]>>
         \o ExtractUntilError(Tail(patents), file, n + 1)

\* lines 317-324: the records of the substrings that extract, in order;
\* a substring that raises is printed and skipped
RECURSIVE ExtractAll(_, _, _)
ExtractAll(patents, file, n) ==
    IF patents = <<>> THEN <<>>
    ELSE LET rest == ExtractAll(Tail(patents), file, n + 1)
         IN IF Head(patents).result = "ok"
            THEN <<[file |-> file, patent |-> n,
                    pub_ref_doc_number |-> Head(patents).pub_ref_doc_number]>>
                 \o rest
            ELSE rest

\* lines 304-327: the records one XML file adds; none when reading fails
FileRecords(f, file) ==
    IF ~f.readable THEN <<>> ELSE ExtractAll(f.patents, file, 1)

\* line 332: "pub_ref_doc_number" in df.columns
HasPubRefColumn(recs) ==
    \E i \in 1..Len(recs) : recs[i].pub_ref_doc_number # NoField

\* drop_duplicates(keep='last'): the last row of each value is kept
RECURSIVE DropDuplicatesKeepLast(_, _)
DropDuplicatesKeepLast(recs, seen) ==
    IF recs = <<>> THEN <<>>
    ELSE IF \E j \in 2..Len(recs) :
              recs[j].pub_ref_doc_number = Head(recs).pub_ref_doc_number
         THEN DropDuplicatesKeepLast(Tail(recs), seen)
         ELSE <<Head(recs)>> \o DropDuplicatesKeepLast(Tail(recs), seen)

\* line 333: df.drop_duplicates(subset=["pub_ref_doc_number"]): the first
\* row of each value is kept; rows without the key hold NaN, one value
RECURSIVE DropDuplicates(_, _)
DropDuplicates(recs, seen) ==
    IF recs = <<>> THEN <<>>
    ELSE IF Head(recs).pub_ref_doc_number \in seen
         THEN DropDuplicates(Tail(recs), seen)
         ELSE <<Head(recs)>>
              \o DropDuplicates(Tail(recs),
                                seen \cup {Head(recs).pub_ref_doc_number})

\* lines 330-336
Deduplicated(recs) ==
    IF HasPubRefColumn(recs) THEN DropDuplicates(recs, {}) ELSE recs

NoReturn == [value |-> "-", at |-> "-"]
Return(v, at) == [value |-> v, at |-> at]

IdleUspto ==
    /\ usPc = "idle" /\ usKey = <<>> /\ usLocal = FALSE /\ usArchive = <<>>
    /\ usHead = "-" /\ usFileIx = 0 /\ consolidated_records = <<>>
    /\ usParquet = <<>> /\ usReturn = NoReturn

InitUsptoVars ==
    /\ usPc = "check_key"
    /\ usKey \in ZipKeys
    /\ usLocal \in BOOLEAN
    /\ \E n \in 0..MaxFiles : usArchive \in [1..n -> Members]
    /\ usHead = "-" /\ usFileIx = 0 /\ consolidated_records = <<>>
    /\ usParquet = <<>> /\ usReturn = NoReturn

\* lines 232-249
CheckKey ==
    /\ usPc = "check_key"
    /\ IF KeyAccepted(usKey)
       THEN usPc' = "head" /\ UNCHANGED usReturn
       ELSE usPc' = "returned" /\ usReturn' = Return("False", "check_key")
    /\ UNCHANGED <<othersUspto, usKey, usLocal, usArchive, usHead, usFileIx,
                   consolidated_records, usParquet>>

\* what head_object answers: the object is there ("200"), or a ClientError
\* with the code "404" (no such key) or another code
HeadStatuses == {"200", "404", "403", "500"}

\* lines 252-259: the existence check of the Parquet key.  A ClientError
\* whose code is '404' returns False; one with another code matches no
\* branch of the handler, and the function goes on after the try statement.
AfterHead(status) ==
    CASE status = "200" -> "return True"
      [] status = "404" -> "return False"
      [] OTHER          -> "continue"

HeadParquet ==
    /\ usPc = "head"
    /\ \E status \in HeadStatuses :
         /\ usHead' = status
         /\ CASE AfterHead(status) = "return True" ->
                   usPc' = "returned" /\ usReturn' = Return("True", "head")
              [] AfterHead(status) = "return False" ->
                   usPc' = "returned" /\ usReturn' = Return("False", "head")
              [] OTHER ->
                   usPc' = "obtain" /\ UNCHANGED usReturn
    /\ UNCHANGED <<othersUspto, usKey, usLocal, usArchive, usFileIx,
                   consolidated_records, usParquet>>

\* lines 262-277: the local file, or download_file, which may fail
ObtainZip ==
    /\ usPc = "obtain"
    /\ \/ usPc' = "extract" /\ UNCHANGED usReturn
       \/ /\ ~usLocal
          /\ usPc' = "returned" /\ usReturn' = Return("False", "download")
    /\ UNCHANGED <<othersUspto, usKey, usLocal, usArchive, usHead, usFileIx,
                   consolidated_records, usParquet>>

\* lines 280-297: extractall, which may fail; no XML member returns False
ExtractZip ==
    /\ usPc = "extract"
    /\ \/ /\ XmlFiles(usArchive) # <<>>
          /\ usPc' = "files" /\ UNCHANGED usReturn
       \/ /\ XmlFiles(usArchive) = <<>>
          /\ usPc' = "returned" /\ usReturn' = Return("False", "no_xml")
       \/ usPc' = "returned" /\ usReturn' = Return("False", "extract")
    /\ UNCHANGED <<othersUspto, usKey, usLocal, usArchive, usHead, usFileIx,
                   consolidated_records, usParquet>>

\* lines 302-327: one iteration of the loop over xml_files
ProcessXmlFile ==
    /\ usPc = "files" /\ usFileIx < Len(XmlFiles(usArchive))
    /\ usFileIx' = usFileIx + 1
    /\ consolidated_records' =
         consolidated_records
         \o FileRecords(XmlFiles(usArchive)[usFileIx + 1], usFileIx + 1)
    /\ UNCHANGED <<othersUspto, usPc, usKey, usLocal, usArchive, usHead,
                   usParquet, usReturn>>

\* lines 329-350: deduplicate, write the Parquet and upload it
WriteParquet ==
    /\ usPc = "files" /\ usFileIx = Len(XmlFiles(usArchive))
    /\ usPc' = "returned"
    /\ IF consolidated_records = <<>>
       THEN usReturn' = Return("False", "no_records") /\ UNCHANGED usParquet
       ELSE \/ /\ usParquet' = Deduplicated(consolidated_records)
               /\ usReturn' = Return("True", "upload")
            \/ /\ usReturn' = Return("False", "upload")
               /\ UNCHANGED usParquet
    /\ UNCHANGED <<othersUspto, usKey, usLocal, usArchive, usHead, usFileIx,
                   consolidated_records>>

NextUspto ==
    CheckKey \/ HeadParquet \/ ObtainZip \/ ExtractZip \/ ProcessXmlFile
    \/ WriteParquet

(***************************************************************************)
(* parse_xml on documents with valid identifiers that differ in their      *)
(* classification-ipcr texts or in their B540.                             *)
(***************************************************************************)
FieldDocs ==
    {[GoodDoc EXCEPT !.ipc = els] : els \in SeqsUpTo(IpcTexts, MaxIpc)}
    \cup
    {[GoodDoc EXCEPT !.b540 = B540(langs, texts)] :
        langs \in SeqsUpTo(LangTexts, MaxTitles),
        texts \in SeqsUpTo(TitleTexts, MaxTitles)}

InitFieldsVars == pxPc = "call" /\ pxDoc \in FieldDocs /\ pxResult = None

(***************************************************************************)
(* split_patent_documents (src/uspto_scraper.py:137-147).                  *)
(* A text is a sequence of tokens: the four markers the pattern names,     *)
(* '>', a whitespace character, a run of characters of [a-z-], and any     *)
(* other character.                                                        *)
(***************************************************************************)
MaxSpans == 2

XmlOpen  == "<?xml"
Doctype  == "<!DOCTYPE"
TagOpen  == "<us-patent-"
TagClose == "</us-patent-"
Gt       == ">"
Ws       == " "
Name     == "grant"
Other    == "#"

Tokens    == {XmlOpen, Doctype, TagOpen, TagClose, Gt, Ws, Name, Other}
NotGtToks == Tokens \ {Gt}      \* [^>]
WsToks    == {Ws}               \* \s
NameToks  == {Name}             \* [a-z-]

\* the end of the longest run of tokens of S that starts at i: the index of
\* the first token from i on that is not in S, Len(t) + 1 if there is none
RunEnd(t, i, S) ==
    LET stops == {j \in i..Len(t) : t[j] \notin S}
    IN IF stops = {} THEN Len(t) + 1
       ELSE CHOOSE j \in stops : \A k \in stops : j <= k

\* lit[^>]+> matched at i: the index after the '>', 0 when it does not match
MarkupEnd(t, i, lit) ==
    IF i > Len(t) \/ t[i] # lit THEN 0
    ELSE LET j == RunEnd(t, i + 1, NotGtToks)
         IN IF j > i + 1 /\ j <= Len(t) THEN j + 1 ELSE 0

\* <us-patent-[a-z-]+[^>]*> matched at i
OpenTagEnd(t, i) ==
    IF i + 1 > Len(t) \/ t[i] # TagOpen \/ t[i + 1] \notin NameToks THEN 0
    ELSE LET j == RunEnd(t, i + 1, NotGtToks)
         IN IF j <= Len(t) THEN j + 1 ELSE 0

\* </us-patent-[a-z-]+> matched at c
CloseTagEnd(t, c) ==
    IF c + 1 > Len(t) \/ t[c] # TagClose \/ t[c + 1] \notin NameToks THEN 0
    ELSE LET e == RunEnd(t, c + 1, NameToks)
         IN IF e <= Len(t) /\ t[e] = Gt THEN e + 1 ELSE 0

\* .*</us-patent-[a-z-]+> with a greedy star: the last closing tag
GreedyClose(t, from) ==
    LET cs == {c \in from..Len(t) : CloseTagEnd(t, c) # 0}
    IN IF cs = {} THEN 0
       ELSE CloseTagEnd(t, CHOOSE c \in cs : \A d \in cs : d <= c)

\* .*?</us-patent-[a-z-]+> from `from` on (re.DOTALL: '.' is any character):
\* the lazy star stops at the first closing tag
LazyClose(t, from) ==
    LET cs == {c \in from..Len(t) : CloseTagEnd(t, c) # 0}
    IN IF cs = {} THEN 0
       ELSE CloseTagEnd(t, CHOOSE c \in cs : \A d \in cs : c <= d)

\* line 143: the whole pattern matched at i; the index after the match, 0
\* when the pattern does not match at i
MatchEnd(t, i) ==
    LET a == MarkupEnd(t, i, XmlOpen)
        b == IF a = 0 THEN 0 ELSE MarkupEnd(t, RunEnd(t, a, WsToks), Doctype)
        c == IF b = 0 THEN 0 ELSE OpenTagEnd(t, RunEnd(t, b, WsToks))
    IN IF c = 0 THEN 0 ELSE LazyClose(t, c)

\* line 146: pattern.findall: the non-overlapping matches, left to right
RECURSIVE FindAll(_, _)
FindAll(t, i) ==
    IF i > Len(t) THEN <<>>
    ELSE IF MatchEnd(t, i) # 0
         THEN <<SubSeq(t, i, MatchEnd(t, i) - 1)>> \o FindAll(t, MatchEnd(t, i))
         ELSE FindAll(t, i + 1)

\* split_patent_documents(xml_content)
SplitPatentDocuments(xml_content) == FindAll(xml_content, 1)

\* a well-formed patent document:
\* <?xml ...?> <!DOCTYPE ...> <us-patent-grant ...> ... </us-patent-grant>
Span(ws, attrs, body) ==
    <<XmlOpen, Ws, Other, Gt>> \o ws \o <<Doctype, Ws, Name, Ws, Other, Gt>>
    \o ws \o <<TagOpen, Name>> \o attrs \o <<Gt>> \o body
    \o <<TagClose, Name, Gt>>

Spans ==
    {Span(ws, attrs, body) :
        ws \in {<<>>, <<Ws>>}, attrs \in {<<>>, <<Ws, Other>>},
        body \in {<<>>, <<Ws, Other, Name, Gt, Other, Other, Name, Gt, Ws>>}}

\* a document cut off before its end
Truncated == UNION {{SubSeq(d, 1, n) : n \in 1..(Len(d) - 1)} : d \in Spans}

RECURSIVE Joined(_, _)
Joined(docs, sep) ==
    IF docs = <<>> THEN <<>>
    ELSE Head(docs) \o sep \o Joined(Tail(docs), sep)

IdleSplit ==
    spPc = "idle" /\ spSpans = <<>> /\ spText = <<>> /\ spResult = <<>>

\* the bulk files the function is called with: documents one after the
\* other, separated by nothing or by a newline, the last one cut off
InitSplitVars ==
    /\ spPc = "call"
    /\ \E k \in 0..MaxSpans : spSpans \in [1..k -> Spans]
    /\ \E sep \in {<<>>, <<Ws>>}, last \in Truncated :
          spText = Joined(spSpans, sep) \o last
    /\ spResult = <<>>

CallSplit ==
    /\ spPc = "call"
    /\ spResult' = SplitPatentDocuments(spText)
    /\ spPc' = "returned"
    /\ UNCHANGED <<spSpans, spText, othersSplit>>

NextSplit == CallSplit

(***************************************************************************)
(* extract_data (src/uspto_scraper.py:149-220): the classifications, the   *)
(* assignees and the inventors.  The other keys of the dict (title,        *)
(* abstract, references, description) are scalars read independently of    *)
(* these and are left out.                                                 *)
(***************************************************************************)
MaxEntries == 2

\* el.findtext(child): None when there is no such child, '' when the child
\* has no character data, else its text
FindText(child) ==
    IF ~child.exists THEN NoText
    ELSE IF child.text = NoText THEN <<>> ELSE child.text

\* one classification-cpc element
CpcEntry(version, section, class, subclass, main_group, subgroup) ==
    [version |-> version, section |-> section, class |-> class,
     subclass |-> subclass, main_group |-> main_group, subgroup |-> subgroup]

CpcH04L == CpcEntry(Element(<<"2", "0", "1", "3">>), Element(<<"H">>),
                    Element(<<"0", "4">>), Element(<<"L">>),
                    Element(<<"9">>), Element(<<"3", "2">>))
CpcG06F == CpcEntry(NoElement, Element(<<"G">>), Element(<<"0", "6">>),
                    Element(<<"F">>), Element(<<"1", "7">>),
                    Element(<<"3", "0">>))

CpcEntries ==
    {CpcH04L, CpcG06F,
     [CpcH04L EXCEPT !.subgroup = NoElement],
     [CpcG06F EXCEPT !.section = NoElement, !.main_group = NoElement],
     [CpcH04L EXCEPT !.subgroup = Element(NoText)]}

\* one addressbook element of an assignee or of an inventor
NoAddress == [exists |-> FALSE, city |-> NoElement, country |-> NoElement]
Address(city, country) == [exists |-> TRUE, city |-> city, country |-> country]

AssigneeBooks ==
    {[orgname |-> Element(<<"A", "c", "m", "e">>),
      address |-> Address(Element(<<"B", "o", "n", "n">>), Element(<<"D", "E">>))],
     [orgname |-> Element(<<"I", "n", "c">>), address |-> NoAddress],
     [orgname |-> NoElement,
      address |-> Address(NoElement, Element(<<"U", "S">>))]}

InventorBooks ==
    {[last_name |-> Element(<<"D", "o", "e">>),
      first_name |-> Element(<<"J">>),
      address |-> Address(Element(<<"O", "s", "l", "o">>), Element(<<"N", "O">>))],
     [last_name |-> Element(<<"R", "o", "e">>),
      first_name |-> Element(<<"K">>), address |-> NoAddress],
     [last_name |-> Element(<<"P", "o", "e">>), first_name |-> NoElement,
      address |-> Address(Element(<<"R", "i", "g", "a">>), NoElement)]}

PatentDocs ==
    [wellformed : {TRUE},
     cpc : SeqsUpTo(CpcEntries, MaxEntries),
     assignees : SeqsUpTo(AssigneeBooks, MaxEntries),
     inventors : SeqsUpTo(InventorBooks, MaxEntries)]

\* a string ET.fromstring rejects
MalformedPatent ==
    [wellformed |-> FALSE, cpc |-> <<>>, assignees |-> <<>>, inventors |-> <<>>]

\* a test that looks at the section only
SectionPresent(c) == FindText(c.section) # NoText

\* line 170: all(v is not None for v in [section, class_, subclass,
\* main_group, subgroup])
AllPresent(c) ==
    /\ FindText(c.section) # NoText /\ FindText(c.class) # NoText
    /\ FindText(c.subclass) # NoText /\ FindText(c.main_group) # NoText
    /\ FindText(c.subgroup) # NoText

\* line 171: f"{section}{class_}{subclass} {main_group}/{subgroup}"
FormattedClass(c) ==
    FindText(c.section) \o FindText(c.class) \o FindText(c.subclass)
    \o <<" ">> \o FindText(c.main_group) \o <<"/">> \o FindText(c.subgroup)

\* lines 160-176: the loop over the classification-cpc elements; each pair
\* is what one iteration appends to classifications and to
\* classification_versions
RECURSIVE Classified(_)
Classified(cpc) ==
    IF cpc = <<>> THEN <<>>
    ELSE (IF AllPresent(Head(cpc))
          THEN <<[code |-> FormattedClass(Head(cpc)),
                  version |-> FindText(Head(cpc).version)]>>
          ELSE <<>>)
         \o Classified(Tail(cpc))

\* lines 194, 204-205: one append per addressbook of ab.findtext(child)
NameColumn(books, child) ==
    [i \in 1..Len(books) |-> FindText(books[i][child])]

\* an append only for the addressbooks that have an address
RECURSIVE AddressColumnOfPresent(_, _)
AddressColumnOfPresent(books, child) ==
    IF books = <<>> THEN <<>>
    ELSE (IF Head(books).address.exists
          THEN <<FindText(Head(books).address[child])>> ELSE <<>>)
         \o AddressColumnOfPresent(Tail(books), child)

\* lines 196-198, 207-209: one append per addressbook of
\* addr.findtext(child) if addr is not None else None
AddressColumn(books, child) ==
    [i \in 1..Len(books) |->
        IF books[i].address.exists THEN FindText(books[i].address[child])
        ELSE NoText]

\* extract_data(xml_string)
ExtractData(doc) ==
    IF ~doc.wellformed THEN Raised("ParseError")
    ELSE
      LET cls == Classified(doc.cpc)
      IN [kind |-> "record",
          classifications |-> [i \in 1..Len(cls) |-> cls[i].code],
          classification_versions |-> [i \in 1..Len(cls) |-> cls[i].version],
          assignees_orgnames |-> NameColumn(doc.assignees, "orgname"),
          assignees_cities |-> AddressColumn(doc.assignees, "city"),
          assignees_countries |-> AddressColumn(doc.assignees, "country"),
          inventors_last_names |-> NameColumn(doc.inventors, "last_name"),
          inventors_first_names |-> NameColumn(doc.inventors, "first_name"),
          inventors_cities |-> AddressColumn(doc.inventors, "city"),
          inventors_countries |-> AddressColumn(doc.inventors, "country")]

IdleExtract == exPc = "idle" /\ exDoc = MalformedPatent /\ exResult = None

InitExtractVars ==
    /\ exPc = "call"
    /\ exDoc \in PatentDocs \cup {MalformedPatent}
    /\ exResult = None

CallExtract ==
    /\ exPc = "call"
    /\ exResult' = ExtractData(exDoc)
    /\ exPc' = "returned"
    /\ UNCHANGED <<exDoc, othersExtract>>

NextExtract == CallExtract

(***************************************************************************)
(* The name of a weekly EPO archive: built by the backfill loop of         *)
(* epo_extract_xml, taken apart again by the scraper epo_s3.               *)
(***************************************************************************)
Digits == <<"0", "1", "2", "3", "4", "5", "6", "7", "8", "9">>

\* str(n) of a natural number
RECURSIVE Str(_)
Str(n) == IF n < 10 THEN <<Digits[n + 1]>>
          ELSE Str(n \div 10) \o <<Digits[(n % 10) + 1]>>

\* str.zfill(width)
RECURSIVE ZFill(_, _)
ZFill(s, width) == IF Len(s) >= width THEN s ELSE ZFill(<<"0">> \o s, width)

\* s[a:b]
Slice(s, a, b) == SubSeq(s, a + 1, IF b < Len(s) THEN b ELSE Len(s))

\* range(1, 53)
LastWeek == 52
Years    == {<<"2", "0", "2", "5">>, <<"1", "9", "9", "9">>,
             <<"2", "1", "0", "0">>}
\* for ext in [".zip", ".tar"]
ArchiveExts == <<(<<".", "z", "i", "p">>), (<<".", "t", "a", "r">>)>>

\* f"{year}/epo-xmls/{year}_{week}", the folder of the XMLs of a week
XmlFolder(year, week) ==
    year \o <<"/", "e", "p", "o", "-", "x", "m", "l", "s", "/">>
         \o year \o <<"_">> \o week

\* epo_extract_xml lines 90-95: f"EPRTBJV{year}0000{week_str}001001" + ext
ArchiveName(year, week_str, ext) ==
    <<"E", "P", "R", "T", "B", "J", "V">> \o year \o <<"0", "0", "0", "0">>
        \o week_str \o <<"0", "0", "1", "0", "0", "1">> \o ext

\* a slice that starts one character early
WeekOfOneEarly(filename) == Slice(filename, 14, 16)

\* epo_s3 lines 174-175
YearOf(filename) == Slice(filename, 7, 11)
WeekOf(filename) == Slice(filename, 15, 17)

NoName == [name |-> <<>>, year |-> <<>>, week |-> <<>>, folder |-> <<>>]

IdleNames ==
    /\ nmPc = "idle" /\ nmYear = <<>> /\ nmWeek = 0 /\ nmExt = <<>>
    /\ nmBuilt = NoName /\ nmDerived = NoName

InitNamesVars ==
    /\ nmPc = "backfill"
    /\ nmYear \in Years
    /\ nmWeek \in 1..LastWeek
    /\ nmExt \in {ArchiveExts[i] : i \in 1..Len(ArchiveExts)}
    /\ nmBuilt = NoName /\ nmDerived = NoName

\* epo_extract_xml lines 89-95: one iteration of the loops over week and ext
BuildArchiveName ==
    /\ nmPc = "backfill"
    /\ LET week_str == ZFill(Str(nmWeek), 2)
       IN nmBuilt' = [name   |-> ArchiveName(nmYear, week_str, nmExt),
                      year   |-> nmYear,
                      week   |-> week_str,
                      folder |-> XmlFolder(nmYear, week_str)]
    /\ nmPc' = "scraper"
    /\ UNCHANGED <<nmYear, nmWeek, nmExt, nmDerived, othersNames>>

\* epo_s3 lines 173-177, on the name the EPO page lists
DeriveXmlFolder ==
    /\ nmPc = "scraper"
    /\ LET filename == nmBuilt.name
           year     == YearOf(filename)
           week     == WeekOf(filename)
       IN nmDerived' = [name   |-> filename,
                        year   |-> year,
                        week   |-> week,
                        folder |-> XmlFolder(year, week)]
    /\ nmPc' = "done"
    /\ UNCHANGED <<nmYear, nmWeek, nmExt, nmBuilt, othersNames>>

NextNames == BuildArchiveName \/ DeriveXmlFolder

(***************************************************************************)
(* epo_extract_xml: the backfill of the XMLs of one week.                  *)
(***************************************************************************)
MaxNames == 2
MaxRuns  == 2

\* str.endswith(suffix)
EndsWith(s, suffix) ==
    /\ Len(s) >= Len(suffix)
    /\ SubSeq(s, Len(s) - Len(suffix) + 1, Len(s)) = suffix

\* os.path.basename(name)
RECURSIVE Basename(_)
Basename(name) ==
    IF \E i \in 1..Len(name) : name[i] = "/"
    THEN Basename(Tail(name)) ELSE name

\* is_valid_xml(filename), lines 14-15
IsValidXml(filename) ==
    /\ EndsWith(filename, <<".", "x", "m", "l">>)
    /\ ~EndsWith(filename, <<"T", "O", "C", ".", "x", "m", "l">>)

\* the names an inner zip can hold
InnerNames ==
    {<<"a", ".", "x", "m", "l">>, <<"b", ".", "x", "m", "l">>,
     <<"d", "/", "a", ".", "x", "m", "l">>,
     <<"T", "O", "C", ".", "x", "m", "l">>, <<"a", ".", "t", "x", "t">>}
Archives == SeqsUpTo(InnerNames, MaxNames)

\* a dispatch that ignores the case of the extension
ArchiveFormatAnyCase(archive_path) ==
    IF EndsWith(Lower(archive_path), ArchiveExts[1]) THEN "zip"
    ELSE IF EndsWith(Lower(archive_path), ArchiveExts[2]) THEN "tar"
    ELSE "unsupported"

\* extract_top_archive, lines 18-27, and epo_s3 lines 71-79: the dispatch
\* on the end of the archive path
ArchiveFormat(archive_path) ==
    IF EndsWith(archive_path, ArchiveExts[1]) THEN "zip"
    ELSE IF EndsWith(archive_path, ArchiveExts[2]) THEN "tar"
    ELSE "unsupported"

\* the week the runs are about
TheYear == <<"2", "0", "2", "5">>
TheWeek == <<"0", "1">>
\* archive keys extract_and_upload can be called with
ArchiveKeys ==
    {ArchiveName(TheYear, TheWeek, ext) :
        ext \in {ArchiveExts[1], ArchiveExts[2], <<".", "Z", "I", "P">>,
                 <<".", "g", "z">>}}

\* any(obj["Key"].endswith(".xml") for obj in existing), line 102
AlreadyProcessed(folder) ==
    \E key \in folder : EndsWith(key, <<".", "x", "m", "l">>)

NoPrint == [report |-> "-", exc |-> "-", uploads |-> {}]

IdleBackfill ==
    /\ bfPc = "idle" /\ bfStored = {} /\ bfEntries = <<>> /\ bfExtIx = 0
    /\ bfKey = <<>> /\ bfIx = 0 /\ bfFolder = {} /\ bfRun = 0
    /\ bfLog = NoPrint

\* the script starts on an empty destination folder; or extract_and_upload
\* is called once with some archive key
InitBackfillVars ==
    /\ bfEntries \in Archives
    /\ bfIx = 0 /\ bfFolder = {} /\ bfLog = NoPrint
    /\ \/ /\ bfPc = "probe" /\ bfRun = 1 /\ bfExtIx = 1 /\ bfKey = <<>>
          /\ bfStored \in SUBSET {ArchiveExts[1], ArchiveExts[2]}
       \/ /\ bfPc = "call" /\ bfRun = 0 /\ bfExtIx = 0
          /\ bfKey \in ArchiveKeys /\ bfStored = {}

\* lines 96-97 and 111-113: head_object answers 404, `continue`
ProbeMissing ==
    /\ bfPc = "probe"
    /\ ArchiveExts[bfExtIx] \notin bfStored
    /\ IF bfExtIx < Len(ArchiveExts)
       THEN bfExtIx' = bfExtIx + 1 /\ bfPc' = "probe"
       ELSE bfExtIx' = bfExtIx /\ bfPc' = "ended"
    /\ UNCHANGED <<bfStored, bfEntries, bfKey, bfIx, bfFolder, bfRun, bfLog,
                   othersBackfill>>

\* lines 111-116: head_object or list_objects_v2 raises another
\* ClientError, which is printed and leaves the script
ProbeError ==
    /\ bfPc = "probe"
    /\ bfPc' = "crashed"
    /\ bfLog' = [bfLog EXCEPT !.report = "error", !.exc = "ClientError"]
    /\ UNCHANGED <<bfStored, bfEntries, bfExtIx, bfKey, bfIx, bfFolder, bfRun,
                   othersBackfill>>

\* lines 96-106: the archive is there and the folder holds some .xml key
SkipProcessed ==
    /\ bfPc = "probe"
    /\ ArchiveExts[bfExtIx] \in bfStored
    /\ AlreadyProcessed(bfFolder)
    /\ bfPc' = "skipped"
    /\ bfLog' = [bfLog EXCEPT !.report = "skip"]
    /\ UNCHANGED <<bfStored, bfEntries, bfExtIx, bfKey, bfIx, bfFolder, bfRun,
                   othersBackfill>>

\* lines 96-108: the archive is there and the folder holds no .xml key
CallExtractAndUpload ==
    /\ bfPc = "probe"
    /\ ArchiveExts[bfExtIx] \in bfStored
    /\ ~AlreadyProcessed(bfFolder)
    /\ bfKey' = ArchiveName(TheYear, TheWeek, ArchiveExts[bfExtIx])
    /\ bfPc' = "call"
    /\ UNCHANGED <<bfStored, bfEntries, bfExtIx, bfIx, bfFolder, bfRun, bfLog,
                   othersBackfill>>

\* lines 31-40: download_file and extract_top_archive
DownloadAndExtract ==
    /\ bfPc = "call"
    /\ \/ /\ bfPc' = "except"
          /\ bfLog' = [bfLog EXCEPT !.exc = "ClientError"]
          /\ bfIx' = bfIx
       \/ /\ ArchiveFormat(bfKey) = "unsupported"
          /\ bfPc' = "except"
          /\ bfLog' = [bfLog EXCEPT !.exc = "ValueError"]
          /\ bfIx' = bfIx
       \/ /\ ArchiveFormat(bfKey) # "unsupported"
          /\ \/ /\ bfPc' = "except"
                /\ bfLog' = [bfLog EXCEPT !.exc = "BadArchive"]
                /\ bfIx' = bfIx
             \/ /\ bfPc' = "walk" /\ bfIx' = 0 /\ bfLog' = bfLog
    /\ UNCHANGED <<bfStored, bfEntries, bfExtIx, bfKey, bfFolder, bfRun,
                   othersBackfill>>

\* lines 52-68: one name of an inner zip
HandleInnerName ==
    /\ bfPc = "walk" /\ bfIx < Len(bfEntries)
    /\ LET inner_file_name == bfEntries[bfIx + 1]
           xml_filename    == Basename(inner_file_name)
       IN IF ~IsValidXml(inner_file_name)
          THEN /\ bfIx' = bfIx + 1
               /\ UNCHANGED <<bfPc, bfFolder, bfLog>>
          ELSE \/ \* head_object raises another error than 404
                  /\ bfPc' = "except"
                  /\ bfLog' = [bfLog EXCEPT !.exc = "ClientError"]
                  /\ UNCHANGED <<bfIx, bfFolder>>
               \/ \* the key is there: skipped
                  /\ xml_filename \in bfFolder
                  /\ bfIx' = bfIx + 1
                  /\ UNCHANGED <<bfPc, bfFolder, bfLog>>
               \/ \* 404, and upload_fileobj succeeds
                  /\ xml_filename \notin bfFolder
                  /\ bfFolder' = bfFolder \cup {xml_filename}
                  /\ bfLog' = [bfLog EXCEPT
                                 !.uploads = @ \cup {xml_filename}]
                  /\ bfIx' = bfIx + 1
                  /\ bfPc' = bfPc
               \/ \* 404, and upload_fileobj raises
                  /\ xml_filename \notin bfFolder
                  /\ bfPc' = "except"
                  /\ bfLog' = [bfLog EXCEPT !.exc = "S3UploadFailedError"]
                  /\ UNCHANGED <<bfIx, bfFolder>>
    /\ UNCHANGED <<bfStored, bfEntries, bfExtIx, bfKey, bfRun, othersBackfill>>

\* lines 70-71: the walk is over
WalkDone ==
    /\ bfPc = "walk" /\ bfIx = Len(bfEntries)
    /\ bfLog' = [bfLog EXCEPT !.report = "success"]
    /\ bfPc' = "finally"
    /\ UNCHANGED <<bfStored, bfEntries, bfExtIx, bfKey, bfIx, bfFolder, bfRun,
                   othersBackfill>>

\* lines 73-74: except Exception, the error is printed
ExtractExcept ==
    /\ bfPc = "except"
    /\ bfLog' = [bfLog EXCEPT !.report = "error"]
    /\ bfPc' = "finally"
    /\ UNCHANGED <<bfStored, bfEntries, bfExtIx, bfKey, bfIx, bfFolder, bfRun,
                   othersBackfill>>

\* lines 75-78 and 109: the temporary directory is removed, the call
\* returns and the loop over the extensions is left
ExtractFinally ==
    /\ bfPc = "finally"
    /\ bfPc' = IF bfRun = 0 THEN "returned" ELSE "ended"
    /\ UNCHANGED <<bfStored, bfEntries, bfExtIx, bfKey, bfIx, bfFolder, bfRun,
                   bfLog, othersBackfill>>

\* the script is started again
RunAgain ==
    /\ bfPc \in {"ended", "skipped", "crashed"}
    /\ bfRun < MaxRuns
    /\ bfRun' = bfRun + 1
    /\ bfPc' = "probe" /\ bfExtIx' = 1 /\ bfKey' = <<>> /\ bfIx' = 0
    /\ bfLog' = NoPrint
    /\ UNCHANGED <<bfStored, bfEntries, bfFolder, othersBackfill>>

NextBackfill ==
    \/ ProbeMissing \/ ProbeError \/ SkipProcessed \/ CallExtractAndUpload
    \/ DownloadAndExtract \/ HandleInnerName \/ WalkDone \/ ExtractExcept
    \/ ExtractFinally \/ RunAgain

(***************************************************************************)
(* epo_s3: download_and_process_latest_file on the latest file of the      *)
(* page.                                                                   *)
(***************************************************************************)
\* the names the page can list as its latest file
PageFiles ==
    ArchiveKeys \cup {<<"n", "o", "t", "e", "s", ".", "p", "d", "f">>}

\* line 149: any(file_name.lower().endswith(ext) for ext in
\* valid_extensions)
IsArchive(file_name) ==
    \E i \in 1..Len(ArchiveExts) : EndsWith(Lower(file_name), ArchiveExts[i])

IdleScraper ==
    /\ scPc = "idle" /\ scFile = <<>> /\ scEntries = <<>> /\ scRaw = FALSE
    /\ scIx = 0 /\ scFolder = {} /\ scRun = 0 /\ scLog = NoPrint

\* the first run finds neither the raw archive nor any XML in S3
InitScraperVars ==
    /\ scPc = "start" /\ scFile \in PageFiles /\ scEntries \in Archives
    /\ scRaw = FALSE /\ scIx = 0 /\ scFolder = {} /\ scRun = 1
    /\ scLog = NoPrint

\* the outer `except` and `finally` of lines 222-232
Abandon(exc) ==
    /\ scPc' = "finished"
    /\ scLog' = [scLog EXCEPT !.report = "error", !.exc = exc]

\* lines 130-169: the page is read and the latest archive is looked for
FindLatest ==
    /\ scPc = "start"
    /\ \/ Abandon("TimeoutException")
       \/ /\ ~IsArchive(scFile)
          /\ scPc' = "finished"
          /\ scLog' = [scLog EXCEPT !.report = "no archive"]
       \/ /\ IsArchive(scFile)
          /\ scPc' = "check" /\ scLog' = scLog
    /\ UNCHANGED <<scFile, scEntries, scRaw, scIx, scFolder, scRun,
                   othersScraper>>

\* lines 182-184: s3_file_exists on the archive key
CheckRawArchive ==
    /\ scPc = "check"
    /\ \/ Abandon("ClientError")
       \/ /\ scRaw
          /\ scPc' = "finished"
          /\ scLog' = [scLog EXCEPT !.report = "skip"]
       \/ /\ ~scRaw
          /\ scPc' = "download" /\ scLog' = scLog
    /\ UNCHANGED <<scFile, scEntries, scRaw, scIx, scFolder, scRun,
                   othersScraper>>

\* lines 186-208: the download, until the file is there or the wait times
\* out
DownloadArchive ==
    /\ scPc = "download"
    /\ \/ Abandon("TimeoutException")
       \/ scPc' = "upload" /\ scLog' = scLog
    /\ UNCHANGED <<scFile, scEntries, scRaw, scIx, scFolder, scRun,
                   othersScraper>>

\* line 211: upload_to_s3 of the raw archive
UploadRawArchive ==
    /\ scPc = "upload"
    /\ \/ Abandon("S3UploadFailedError") /\ scRaw' = scRaw
       \/ scRaw' = TRUE /\ scPc' = "extract" /\ scLog' = scLog
    /\ UNCHANGED <<scFile, scEntries, scIx, scFolder, scRun, othersScraper>>

\* lines 68-79, 100-106: the top-level archive is extracted, or its format
\* is not supported, or the extraction raises
ExtractTopLevel ==
    /\ scPc = "extract"
    /\ \/ /\ ArchiveFormat(scFile) = "unsupported"
          /\ scLog' = [scLog EXCEPT !.report = "unsupported"]
          /\ scPc' = "cleanup" /\ scIx' = scIx
       \/ /\ ArchiveFormat(scFile) # "unsupported"
          /\ \/ /\ scLog' = [scLog EXCEPT !.report = "error",
                                            !.exc = "BadArchive"]
                /\ scPc' = "cleanup" /\ scIx' = scIx
             \/ scPc' = "walk" /\ scIx' = 0 /\ scLog' = scLog
    /\ UNCHANGED <<scFile, scEntries, scRaw, scFolder, scRun, othersScraper>>

\* lines 82-96, 100-106: one name of an inner zip
UploadInnerName ==
    /\ scPc = "walk" /\ scIx < Len(scEntries)
    /\ LET inner_file_name == scEntries[scIx + 1]
           xml_filename    == Basename(inner_file_name)
       IN IF ~IsValidXml(inner_file_name)
          THEN /\ scIx' = scIx + 1
               /\ UNCHANGED <<scPc, scFolder, scLog>>
          ELSE \/ /\ scFolder' = scFolder \cup {xml_filename}
                  /\ scLog' = [scLog EXCEPT
                                 !.uploads = @ \cup {xml_filename}]
                  /\ scIx' = scIx + 1
                  /\ scPc' = scPc
               \/ /\ scLog' = [scLog EXCEPT !.report = "error",
                                             !.exc = "S3UploadFailedError"]
                  /\ scPc' = "cleanup"
                  /\ UNCHANGED <<scIx, scFolder>>
    /\ UNCHANGED <<scFile, scEntries, scRaw, scRun, othersScraper>>

\* line 98: the walk is over
UploadsDone ==
    /\ scPc = "walk" /\ scIx = Len(scEntries)
    /\ scLog' = [scLog EXCEPT !.report = "success"]
    /\ scPc' = "cleanup"
    /\ UNCHANGED <<scFile, scEntries, scRaw, scIx, scFolder, scRun,
                   othersScraper>>

\* lines 217-232: the local archive is removed and the function ends
FinalCleanup ==
    /\ scPc = "cleanup"
    /\ scPc' = "finished"
    /\ UNCHANGED <<scFile, scEntries, scRaw, scIx, scFolder, scRun, scLog,
                   othersScraper>>

\* the script is started again
ScrapeAgain ==
    /\ scPc = "finished"
    /\ scRun < MaxRuns
    /\ scRun' = scRun + 1
    /\ scPc' = "start" /\ scIx' = 0 /\ scLog' = NoPrint
    /\ UNCHANGED <<scFile, scEntries, scRaw, scFolder, othersScraper>>

NextScraper ==
    \/ FindLatest \/ CheckRawArchive \/ DownloadArchive \/ UploadRawArchive
    \/ ExtractTopLevel \/ UploadInnerName \/ UploadsDone \/ FinalCleanup
    \/ ScrapeAgain

(***************************************************************************)
(* uspto_scraper: the loop of __main__ over the download links.            *)
(***************************************************************************)
MaxLinks == 2

\* the texts of the links: two weekly files, a file without a date, and
\* a name that merely contains ".zip"
LinkNames ==
    {<<"i", "p", "g", "2", "4", "0", "1", "0", "2", ".", "z", "i", "p">>,
     <<"i", "p", "g", "2", "5", "0", "1", "0", "7", ".", "z", "i", "p">>,
     <<"i", "p", "g", "x", ".", "z", "i", "p">>,
     <<"i", "p", "g", "2", "4", "0", "1", "0", "2", ".", "z", "i", "p",
       ".", "m", "d", "5">>}

\* lines 514-516: f"20{filename[3:5]}/zipped/{filename}"
RawS3Key(filename) ==
    <<"2", "0">> \o Slice(filename, 3, 5)
        \o <<"/", "z", "i", "p", "p", "e", "d", "/">> \o filename

\* lines 522-523: re.search(r'ipg(\d{6})\.zip', filename, re.IGNORECASE), the
\* group of the leftmost match, <<>> for no match
DateMatch(filename) ==
    LET starts ==
          {i \in 1..(Len(filename) - 12) :
              /\ Lower(SubSeq(filename, i, i + 2)) = <<"i", "p", "g">>
              /\ \A k \in (i + 3)..(i + 8) : filename[k] \in Range(Digits)
              /\ Lower(SubSeq(filename, i + 9, i + 12))
                   = <<".", "z", "i", "p">>}
    IN IF starts = {} THEN <<>>
       ELSE LET i == CHOOSE j \in starts : \A k \in starts : j <= k
            IN SubSeq(filename, i + 3, i + 8)

\* line 524: f"{year}/xmls/{date_part}.parquet", <<>> for None
ParquetCheckKey(filename) ==
    IF DateMatch(filename) = <<>> THEN <<>>
    ELSE <<"2", "0">> \o Slice(filename, 3, 5)
            \o <<"/", "x", "m", "l", "s", "/">> \o DateMatch(filename)
            \o <<".", "p", "a", "r", "q", "u", "e", "t">>

NoFile ==
    [filename |-> <<>>, rawAtStart |-> FALSE, parquetAtStart |-> FALSE,
     clicked |-> FALSE, download_succeeded |-> FALSE,
     upload_succeeded |-> FALSE, processed |-> "-", left |-> "-"]

IdleMain ==
    /\ mnPc = "idle" /\ mnLinks = <<>> /\ mnI = 0 /\ mnRaw = {}
    /\ mnParquet = {} /\ mnNow = NoFile

InitMainVars ==
    /\ mnPc = "loop" /\ mnI = 0 /\ mnNow = NoFile
    /\ mnLinks \in SeqsUpTo(LinkNames, MaxLinks)
    /\ mnRaw \in SUBSET {RawS3Key(f) : f \in LinkNames}
    /\ mnParquet \in SUBSET ({ParquetCheckKey(f) : f \in LinkNames} \ {<<>>})

\* process_uspto_zip_to_parquet(raw_s3_key, ...): it may put the Parquet
\* of the date of the key into S3
ParquetsAfter(filename) ==
    {mnParquet} \cup
    (IF ParquetCheckKey(filename) = <<>> THEN {}
     ELSE {mnParquet \cup {ParquetCheckKey(filename)}})

\* the processing starts whatever upload_to_s3 returned
AfterUploadAlways(upload_succeeded) == "process_local"

\* lines 553-566: `if upload_succeeded:`
AfterUpload(upload_succeeded) ==
    IF upload_succeeded THEN "process_local" ELSE "loop"

\* lines 489-510: the link of index i is located again and its text read
TakeLink ==
    /\ mnPc = "loop" /\ mnI < Len(mnLinks)
    /\ LET filename == mnLinks[mnI + 1]
           fresh == [NoFile EXCEPT
                       !.filename = filename,
                       !.rawAtStart = RawS3Key(filename) \in mnRaw,
                       !.parquetAtStart =
                           ParquetCheckKey(filename) \in mnParquet]
       IN \/ \* the wait for the links times out: the loop is left
             /\ mnPc' = "ended" /\ mnI' = mnI
             /\ mnNow' = [fresh EXCEPT !.left = "TimeoutException"]
          \/ \* the link is gone (IndexError): `continue`
             /\ mnPc' = "loop" /\ mnI' = mnI + 1
             /\ mnNow' = [fresh EXCEPT !.left = "IndexError"]
          \/ \* the text does not end in .zip: `continue`
             /\ ~EndsWith(Lower(filename), <<".", "z", "i", "p">>)
             /\ mnPc' = "loop" /\ mnI' = mnI + 1
             /\ mnNow' = [fresh EXCEPT !.left = "not a zip"]
          \/ /\ EndsWith(Lower(filename), <<".", "z", "i", "p">>)
             /\ mnPc' = "check" /\ mnI' = mnI
             /\ mnNow' = fresh
    /\ UNCHANGED <<mnLinks, mnRaw, mnParquet, othersMain>>

\* lines 526-533: the two s3_file_exists tests
CheckKeys ==
    /\ mnPc = "check"
    /\ LET raw_s3_key           == RawS3Key(mnNow.filename)
           parquet_s3_check_key == ParquetCheckKey(mnNow.filename)
       IN \/ \* head_object raises another error than 404
             /\ mnPc' = "ended" /\ mnI' = mnI
             /\ mnNow' = [mnNow EXCEPT !.left = "ClientError"]
          \/ /\ raw_s3_key \in mnRaw
             /\ parquet_s3_check_key # <<>>
             /\ parquet_s3_check_key \in mnParquet
             /\ mnPc' = "loop" /\ mnI' = mnI + 1
             /\ mnNow' = [mnNow EXCEPT !.left = "skipped"]
          \/ /\ raw_s3_key \in mnRaw
             /\ ~(parquet_s3_check_key # <<>>
                  /\ parquet_s3_check_key \in mnParquet)
             /\ mnPc' = "process_s3" /\ mnI' = mnI /\ mnNow' = mnNow
          \/ /\ raw_s3_key \notin mnRaw
             /\ mnPc' = "download" /\ mnI' = mnI /\ mnNow' = mnNow
    /\ UNCHANGED <<mnLinks, mnRaw, mnParquet, othersMain>>

\* lines 531-533: process_uspto_zip_to_parquet(raw_s3_key), `continue`
ProcessFromS3 ==
    /\ mnPc = "process_s3"
    /\ mnParquet' \in ParquetsAfter(mnNow.filename)
    /\ mnNow' = [mnNow EXCEPT !.processed = "s3", !.left = "processed"]
    /\ mnPc' = "loop" /\ mnI' = mnI + 1
    /\ UNCHANGED <<mnLinks, mnRaw, othersMain>>

\* lines 535-547: the click and wait_for_download_completion
ClickAndWait ==
    /\ mnPc = "download"
    /\ \/ \* both clicks raise: the loop is left
          /\ mnPc' = "ended" /\ mnI' = mnI
          /\ mnNow' = [mnNow EXCEPT !.left = "WebDriverException"]
       \/ /\ mnPc' = "upload" /\ mnI' = mnI
          /\ mnNow' = [mnNow EXCEPT !.clicked = TRUE,
                                    !.download_succeeded = TRUE]
       \/ /\ mnPc' = "loop" /\ mnI' = mnI + 1
          /\ mnNow' = [mnNow EXCEPT !.clicked = TRUE,
                                    !.left = "download failed"]
    /\ UNCHANGED <<mnLinks, mnRaw, mnParquet, othersMain>>

\* lines 549-566: upload_to_s3 of the raw zip
UploadRawZip ==
    /\ mnPc = "upload"
    /\ \/ \* upload_file raises something else than ClientError
          /\ mnPc' = "ended" /\ mnI' = mnI /\ mnRaw' = mnRaw
          /\ mnNow' = [mnNow EXCEPT !.left = "S3UploadFailedError"]
       \/ /\ mnRaw' = mnRaw \cup {RawS3Key(mnNow.filename)}
          /\ mnNow' = [mnNow EXCEPT !.upload_succeeded = TRUE]
          /\ mnPc' = AfterUpload(TRUE) /\ mnI' = mnI
       \/ /\ mnRaw' = mnRaw
          /\ mnNow' = [mnNow EXCEPT !.left = "upload failed"]
          /\ mnPc' = AfterUpload(FALSE)
          /\ mnI' = IF AfterUpload(FALSE) = "loop" THEN mnI + 1 ELSE mnI
    /\ UNCHANGED <<mnLinks, mnParquet, othersMain>>

\* lines 553-562: process_uspto_zip_to_parquet on the local zip, and the
\* local zip is removed
ProcessLocal ==
    /\ mnPc = "process_local"
    /\ mnParquet' \in ParquetsAfter(mnNow.filename)
    /\ mnNow' = [mnNow EXCEPT !.processed = "local", !.left = "processed"]
    /\ mnPc' = "loop" /\ mnI' = mnI + 1
    /\ UNCHANGED <<mnLinks, mnRaw, othersMain>>

\* the loop is over
LinksDone ==
    /\ mnPc = "loop" /\ mnI = Len(mnLinks)
    /\ mnPc' = "ended"
    /\ UNCHANGED <<mnLinks, mnI, mnRaw, mnParquet, mnNow, othersMain>>

NextMain ==
    \/ TakeLink \/ CheckKeys \/ ProcessFromS3 \/ ClickAndWait
    \/ UploadRawZip \/ ProcessLocal \/ LinksDone

IdleFunctions == IdleSplit /\ IdleExtract /\ IdleChunk /\ IdleEmbed
IdleJobs ==
    IdleParse /\ IdleYear /\ IdlePool /\ IdleUspto /\ IdleRewrite
IdleArchives == IdleNames /\ IdleBackfill /\ IdleScraper /\ IdleMain

(***************************************************************************)
(* Specifications.                                                         *)
(***************************************************************************)
InitParse ==
    InitParseVars /\ IdleYear /\ IdlePool /\ IdleUspto /\ IdleRewrite
    /\ IdleFunctions /\ IdleArchives
SpecParse == InitParse /\ [][NextParse]_vars

InitYear ==
    IdleParse /\ InitYearVars /\ IdlePool /\ IdleUspto /\ IdleRewrite
    /\ IdleFunctions /\ IdleArchives
SpecYear == InitYear /\ [][NextYear]_vars

InitPool ==
    IdleParse /\ IdleYear /\ InitPoolVars /\ IdleUspto /\ IdleRewrite
    /\ IdleFunctions /\ IdleArchives
SpecPool == InitPool /\ [][NextPool]_vars

InitUspto ==
    IdleParse /\ IdleYear /\ IdlePool /\ InitUsptoVars /\ IdleRewrite
    /\ IdleFunctions /\ IdleArchives
SpecUspto == InitUspto /\ [][NextUspto]_vars

InitRewrite ==
    IdleParse /\ IdleYear /\ IdlePool /\ IdleUspto /\ InitRewriteVars
    /\ IdleFunctions /\ IdleArchives
SpecRewrite == InitRewrite /\ [][NextRewrite]_vars

InitFields ==
    InitFieldsVars /\ IdleYear /\ IdlePool /\ IdleUspto /\ IdleRewrite
    /\ IdleFunctions /\ IdleArchives
SpecFields == InitFields /\ [][NextParse]_vars

InitSplit ==
    IdleJobs /\ IdleArchives /\ InitSplitVars /\ IdleExtract /\ IdleChunk /\ IdleEmbed
SpecSplit == InitSplit /\ [][NextSplit]_vars

InitExtract ==
    IdleJobs /\ IdleArchives /\ IdleSplit /\ InitExtractVars /\ IdleChunk /\ IdleEmbed
SpecExtract == InitExtract /\ [][NextExtract]_vars

\* chunk_text runs in one thread, which keeps taking steps
InitChunk ==
    IdleJobs /\ IdleArchives /\ IdleSplit /\ IdleExtract /\ InitChunkVars /\ IdleEmbed
SpecChunk == InitChunk /\ [][NextChunk]_vars /\ WF_vars(NextChunk)

InitEmbed ==
    IdleJobs /\ IdleArchives /\ IdleSplit /\ IdleExtract /\ IdleChunk /\ InitEmbedVars
SpecEmbed == InitEmbed /\ [][NextEmbed]_vars

InitNames ==
    /\ IdleJobs /\ IdleFunctions
    /\ InitNamesVars /\ IdleBackfill /\ IdleScraper /\ IdleMain
SpecNames == InitNames /\ [][NextNames]_vars

InitBackfill ==
    /\ IdleJobs /\ IdleFunctions
    /\ IdleNames /\ InitBackfillVars /\ IdleScraper /\ IdleMain
SpecBackfill == InitBackfill /\ [][NextBackfill]_vars

InitScraper ==
    /\ IdleJobs /\ IdleFunctions
    /\ IdleNames /\ IdleBackfill /\ InitScraperVars /\ IdleMain
SpecScraper == InitScraper /\ [][NextScraper]_vars

InitMain ==
    /\ IdleJobs /\ IdleFunctions
    /\ IdleNames /\ IdleBackfill /\ IdleScraper /\ InitMainVars
SpecMain == InitMain /\ [][NextMain]_vars

\* either EPO script at work on the archive of the week
SpecArchives ==
    (InitBackfill \/ InitScraper) /\ [][NextBackfill \/ NextScraper]_vars

Init ==
    \/ InitParse \/ InitYear \/ InitPool \/ InitUspto \/ InitRewrite
    \/ InitFields \/ InitSplit \/ InitExtract \/ InitChunk \/ InitEmbed
    \/ InitNames \/ InitBackfill \/ InitScraper \/ InitMain
Next ==
    \/ NextParse \/ NextYear \/ NextPool \/ NextUspto \/ NextRewrite
    \/ NextSplit \/ NextExtract \/ NextChunk \/ NextEmbed
    \/ NextNames \/ NextBackfill \/ NextScraper \/ NextMain
Spec == Init /\ [][Next]_vars

(***************************************************************************)
(* Properties of parse_xml (SpecParse).                                    *)
(***************************************************************************)
\* the root attributes as the caller sees them, trimmed
TrimmedId     == IF pxDoc.id = NoAttr THEN <<>> ELSE Strip(pxDoc.id)
TrimmedDocNum == IF pxDoc.docnum = NoAttr THEN <<>> ELSE Strip(pxDoc.docnum)
OnlyDigits(t) == \A i \in 1..Len(t) : t[i] \in IsDigitChars
Parseable     == pxDoc.fetch = "ok" /\ pxDoc.wellformed

\* C1: for a well-formed document whose id is missing or empty after
\* trimming, or whose doc-number (trimmed likewise) is missing, empty or not
\* made only of digits, parse_xml returns None; it returns a record only
\* when the id is non-empty and the doc-number is non-empty and all digits.
C1_InvalidIdsDiscarded ==
    pxPc = "returned" =>
      /\ ( /\ Parseable
           /\ \/ TrimmedId = <<>>
              \/ TrimmedDocNum = <<>>
              \/ ~OnlyDigits(TrimmedDocNum) )
         => pxResult = None
      /\ pxResult.kind = "record"
         => /\ TrimmedId # <<>>
            /\ TrimmedDocNum # <<>>
            /\ OnlyDigits(TrimmedDocNum)
            /\ pxResult.doc_id = TrimmedId

\* C1 witness: a parsed document with a blank id and a numeric doc-number
\* was discarded
C1_Witness ==
    /\ pxPc = "returned" /\ Parseable
    /\ pxDoc.id = <<SP>> /\ pxDoc.docnum = <<"7", "7">>
    /\ pxResult = None

\* C2: whatever the fetch, the parse and the reading of the fields do,
\* parse_xml ends by returning a record or None; no exception leaves it.
C2_NeverRaises ==
    pxPc = "returned" => pxResult.kind \in {"record", "None"}

\* C2 witness: reading the text of an empty anum element failed inside a
\* document with valid ids, and the call returned None
C2_Witness ==
    /\ pxPc = "returned" /\ Parseable
    /\ TrimmedId # <<>> /\ IntParses(TrimmedDocNum)
    /\ pxDoc.anum = Element(NoText)
    /\ pxResult = None

\* the text the caller expects of an optional element: '' when the element
\* is absent or has no character data
ExpectedOptional(el) ==
    IF el.exists /\ el.text # NoText THEN Strip(el.text) ELSE <<>>

\* C24: parse_xml returns a record for every parseable document with a
\* non-empty id and a doc-number of decimal digits, also when the anum
\* element or a date element is present without text; such a field is the
\* empty string, as when the element is absent.
C24_EmptyOptionalElementsGiveEmptyFields ==
    ( /\ pxPc = "returned" /\ Parseable
      /\ TrimmedId # <<>> /\ IntParses(TrimmedDocNum) ) =>
        /\ pxResult.kind = "record"
        /\ pxResult.international_application_number
             = ExpectedOptional(pxDoc.anum)
        /\ pxResult.date_publication = ExpectedOptional(pxDoc.date_pub)
        /\ pxResult.date_filing = ExpectedOptional(pxDoc.date_filing)

\* C25: every named parameter of the insert statement of process_year is
\* a key of every record parse_xml returns, so a batch of records binds
\* to the statement without a missing parameter.
C25_InsertParametersAreRecordKeys ==
    (pxPc = "returned" /\ pxResult.kind = "record") =>
        InsertParameters \subseteq KeysOf(pxResult)

\* C25: the parameters no returned record has are exactly date_publ
C25_OnlyDatePublIsMissing ==
    (pxPc = "returned" /\ pxResult.kind = "record") =>
        InsertParameters \ KeysOf(pxResult) = {"date_publ"}

(***************************************************************************)
(* Properties of process_year (SpecYear).                                  *)
(***************************************************************************)
AttemptIxs == 1..Len(attempts)

C4_FixedSizeBatches ==
    /\ Len(batch) <= batch_size
    /\ \A i \in AttemptIxs :
         attempts[i].at = "loop" => Len(attempts[i].rows) = batch_size

\* the keys parse_xml returned a record for, among the keys taken so far
ParsedKeys ==
    {k \in 1..yrI : /\ IsValidXmlKey(yrBucket[k])
                    /\ ParseXml(yrBucket[k].doc) # None}

\* C5: once all keys are iterated, a non-empty pending batch of any size
\* is submitted in exactly one final flush attempt, and when process_year
\* returns every record parse_xml returned was in at least one attempt.
C5_FinalFlush ==
    yrPc \in {"close", "done"} =>
      /\ yrI = Len(yrBucket)
      /\ \A k \in ParsedKeys :
           \E i \in AttemptIxs : k \in Range(attempts[i].rows)
      /\ batch # <<>> =>
           /\ attempts # <<>>
           /\ attempts[Len(attempts)].at = "final"
           /\ attempts[Len(attempts)].rows = batch
           /\ Cardinality({i \in AttemptIxs : attempts[i].at = "final"}) = 1
      /\ batch = <<>> => \A i \in AttemptIxs : attempts[i].at # "final"

\* C5 witness: after a flush inside the loop, a final batch smaller than
\* batch_size was submitted at the end
C5_Witness ==
    /\ yrPc = "done"
    /\ batch # <<>> /\ Len(batch) < batch_size
    /\ Len(attempts) >= 2
    /\ attempts[1].at = "loop"
    /\ attempts[Len(attempts)].at = "final"

(***************************************************************************)
(* Properties of the thread pool (SpecPool).                               *)
(***************************************************************************)
ReturnedRecord == {k \in PoolKeys : futures[k].outcome = "record"}
RecordKeys == {records[i].key : i \in 1..Len(records)}

\* C6: a task that raises or returns None adds nothing to records and
\* stops no other task; at the exit of the pool, records holds exactly one
\* record for each key whose process_key returned a record.
C6_RecordsAreTheReturnedRecords ==
    /\ RecordKeys \subseteq ReturnedRecord
    /\ Cardinality(RecordKeys) = Len(records)
    /\ \A i \in 1..Len(records) :
         /\ records[i].data.kind = "record"
         /\ records[i].data = ProcessKey(plDocs[records[i].key])
    /\ plPc = "exited" =>
         /\ RecordKeys = ReturnedRecord
         /\ \A k \in PoolKeys : futures[k].state = "finished"

\* C6 witness: one task raised, one returned None, two returned records,
\* which were collected against the submission order
C6_Witness ==
    /\ plPc = "exited"
    /\ \E k \in PoolKeys : futures[k].outcome = "exception"
    /\ \E k \in PoolKeys : futures[k].outcome = "None"
    /\ Len(records) = 2
    /\ records[1].key > records[2].key

\* C7: at most MAX_WORKERS units run at any moment, a unit once started or
\* finished never goes back, and at the exit of the pool every submitted
\* unit has run to its return or its exception.
C7_BoundedWorkersNoCancel ==
    /\ [](Cardinality(Running) <= MAX_WORKERS)
    /\ [](plPc = "exited" =>
            \A k \in PoolKeys :
               /\ futures[k].state = "finished"
               /\ futures[k].outcome \in {"record", "None", "exception"})
    /\ [][\A k \in PoolKeys :
            /\ futures[k].state = "running"
               => futures'[k].state \in {"running", "finished"}
            /\ futures[k].state = "pending"
               => futures'[k].state \in {"pending", "running"}
            /\ futures[k].state = "finished" => futures'[k].state = "finished"
         ]_vars

\* C7 witness: all workers are busy while submitted units wait
C7_Witness ==
    /\ Cardinality(Running) = MAX_WORKERS
    /\ Cardinality(Pending) >= 2

(***************************************************************************)
(* Properties of process_uspto_zip_to_parquet (SpecUspto).                 *)
(***************************************************************************)
\* C8: when the existence check of the Parquet key fails with 404 the
\* function goes on to obtain the archive; when it fails with another
\* status the function stops there and the archive is not processed.
C8_Head404MeansAbsent ==
    /\ usHead = "404" => usReturn.at # "head"
    /\ usHead \in {"403", "500"} => usPc = "returned" /\ usReturn.at = "head"

(***************************************************************************)
(* Properties of the chunked rewrite (SpecRewrite).                        *)
(***************************************************************************)
RowMatches(d) == StrLeq(DateLow, d) /\ StrLeq(d, DateHigh)

MatchingGroups ==
    {g \in 1..Len(rwSource) :
        \E r \in 1..Len(rwSource[g].rows) : RowMatches(rwSource[g].rows[r])}

\* C9: if no row of any row group satisfies the date predicate, the writer
\* is never opened, nothing is written, the total of rows written is 0 and
\* main returns; unless reading the input failed, it returns through the
\* "no data" branch with no error reported.
C9_NoMatchNoOutput ==
    MatchingGroups = {} =>
      /\ rwLog.opens = 0 /\ writer = "None"
      /\ written = <<>>
      /\ total_rows_written = 0
      /\ rwPc # "raised"
      /\ (rwPc = "returned" /\ ~rwLog.ioFailed)
         => rwLog.noData /\ ~rwLog.error

\* C9 witness: a source of NumGroups row groups with rows, none matching,
\* was read to the end
C9_Witness ==
    /\ rwPc = "returned"
    /\ Len(rwSource) = NumGroups
    /\ \A g \in 1..Len(rwSource) : rwSource[g].rows # <<>>
    /\ MatchingGroups = {}
    /\ rwLog.noData

\* C10: the writer is opened at most once, at the first row group with a
\* matching row and with its schema; it is never written after its close;
\* a writer that was opened is closed exactly once before main returns,
\* also when the run aborts on an exception.
C10_WriterOpenedOnceClosedOnce ==
    /\ rwLog.opens <= 1
    /\ rwLog.opens = 1 =>
         /\ rwLog.openedAt \in MatchingGroups
         /\ \A g \in MatchingGroups : rwLog.openedAt <= g
         /\ writerSchema = rwSource[rwLog.openedAt].schema
    /\ rwLog.opens = 0 => writer = "None" /\ written = <<>>
    /\ rwLog.closes <= rwLog.opens
    /\ rwLog.lateWrites = 0
    /\ writer = "closed" <=> rwLog.closes = 1
    /\ rwLog.closes = 1 => rwPc = "returned"
    /\ rwPc = "returned" => rwLog.closes = rwLog.opens

\* C10 witness: the writer was opened at the second row group and written,
\* the run aborted on an exception at the third row group, which has
\* matching rows, and the writer was closed
C10_Witness ==
    /\ rwPc = "returned"
    /\ rwLog.opens = 1 /\ rwLog.openedAt = 2 /\ rwLog.closes = 1
    /\ rwLog.error
    /\ written # <<>>
    /\ rwI = 2 /\ 3 \in MatchingGroups

\* the rows of all row groups from group g on, in source order
RECURSIVE SourceRowsFrom(_)
SourceRowsFrom(g) ==
    IF g > Len(rwSource) THEN <<>>
    ELSE rwSource[g].rows \o SourceRowsFrom(g + 1)

\* the rows among rows[i..] whose date lies in the range, in their order
RECURSIVE MatchingRowsFrom(_, _)
MatchingRowsFrom(rows, i) ==
    IF i > Len(rows) THEN <<>>
    ELSE (IF RowMatches(rows[i]) THEN <<rows[i]>> ELSE <<>>)
         \o MatchingRowsFrom(rows, i + 1)

\* C11: on a run that completes without exception, the rows written are
\* exactly the rows of the source whose date_publication lies in
\* ['20220101', '20241231'], each once and in source order, and write_table
\* was called once for each row group with a matching row, in index order,
\* and for no other row group.
C11_WrittenIsTheFilteredSource ==
    (rwPc = "returned" /\ ~rwLog.ioFailed) =>
      /\ written = MatchingRowsFrom(SourceRowsFrom(1), 1)
      /\ Len(rwLog.writeCalls) = Cardinality(MatchingGroups)
      /\ \A k \in 1..Len(rwLog.writeCalls) :
            /\ rwLog.writeCalls[k] \in MatchingGroups
            /\ k > 1 => rwLog.writeCalls[k - 1] < rwLog.writeCalls[k]

\* C11 witness: a completed run over NumGroups row groups of which the
\* first has no matching row, the second has one at the lower bound and the
\* third has a row out of range followed by one at the upper bound
C11_Witness ==
    /\ rwPc = "returned" /\ ~rwLog.ioFailed
    /\ Len(rwSource) = NumGroups
    /\ rwSource[1].rows = <<DateBefore>>
    /\ rwSource[2].rows = <<DateLow>>
    /\ rwSource[3].rows = <<DateAfter, DateHigh>>
    /\ written = <<DateLow, DateHigh>>

\* C26: in every state of a run, also of a run that an exception during a
\* write ended, total_rows_written is the number of rows write_table has
\* written to the output writer.
C26_TotalIsTheRowsWritten ==
    total_rows_written = Len(written)

\* C26: in a run no exception ended the counter is the rows written
C26_TotalIsTheRowsWrittenUnlessFailed ==
    (rwPc = "returned" /\ ~rwLog.ioFailed) =>
        total_rows_written = Len(written)

(***************************************************************************)
(* Properties of process_uspto_zip_to_parquet (SpecUspto), continued.      *)
(***************************************************************************)
\* the position in consolidated_records of a record (each record carries
\* the file and the substring it came from), 0 when it is not there
PositionOf(rec) ==
    IF \E i \in 1..Len(consolidated_records) : consolidated_records[i] = rec
    THEN CHOOSE i \in 1..Len(consolidated_records) :
            consolidated_records[i] = rec
    ELSE 0

HasNumber(rec) == rec.pub_ref_doc_number # NoField

\* C12: in the Parquet written from one archive, among the accumulated
\* records sharing one pub_ref_doc_number exactly the first in accumulation
\* order survives, the survivors keep their relative order, and when no
\* accumulated record has the field no record is removed.
C12_FirstOfEachNumberSurvives ==
    usReturn = Return("True", "upload") =>
      /\ \A a \in 1..Len(usParquet) : PositionOf(usParquet[a]) # 0
      /\ \A a, b \in 1..Len(usParquet) :
            a < b => PositionOf(usParquet[a]) < PositionOf(usParquet[b])
      /\ \A i \in 1..Len(consolidated_records) :
            HasNumber(consolidated_records[i]) =>
              ((\E a \in 1..Len(usParquet) :
                    usParquet[a] = consolidated_records[i])
               <=> (\A j \in 1..(i - 1) :
                      consolidated_records[j].pub_ref_doc_number
                        # consolidated_records[i].pub_ref_doc_number))
      /\ (\A i \in 1..Len(consolidated_records) :
             ~HasNumber(consolidated_records[i]))
           => usParquet = consolidated_records

\* C12 witness: five records were accumulated, the third, fourth and fifth
\* with the same number, and the Parquet holds the first three
C12_Witness ==
    /\ usReturn = Return("True", "upload")
    /\ Len(consolidated_records) = 5
    /\ consolidated_records[3].pub_ref_doc_number = "D1"
    /\ consolidated_records[4].pub_ref_doc_number = "D1"
    /\ consolidated_records[5].pub_ref_doc_number = "D1"
    /\ usParquet = SubSeq(consolidated_records, 1, 3)

\* C27: deduplication removes no record without a pub_ref_doc_number: when
\* some accumulated record has the number, every accumulated record that
\* lacks it is in the Parquet.
C27_RecordsWithoutNumberAreKept ==
    ( /\ usReturn = Return("True", "upload")
      /\ \E i \in 1..Len(consolidated_records) :
            HasNumber(consolidated_records[i]) ) =>
        \A i \in 1..Len(consolidated_records) :
            ~HasNumber(consolidated_records[i]) =>
                \E a \in 1..Len(usParquet) :
                    usParquet[a] = consolidated_records[i]

\* C27: of the records without the number the first is kept
C27_FirstRecordWithoutNumberIsKept ==
    usReturn = Return("True", "upload") =>
        \A i \in 1..Len(consolidated_records) :
            ( /\ ~HasNumber(consolidated_records[i])
              /\ \A j \in 1..(i - 1) : HasNumber(consolidated_records[j]) )
            => \E a \in 1..Len(usParquet) :
                   usParquet[a] = consolidated_records[i]

\* the substrings of the XML files handled so far that extract: pairs of
\* file index and substring index
Extractable ==
    UNION {{<<f, n>> : n \in {m \in 1..Len(XmlFiles(usArchive)[f].patents) :
                                XmlFiles(usArchive)[f].patents[m].result = "ok"}}
           : f \in {g \in 1..usFileIx : XmlFiles(usArchive)[g].readable}}

\* C13: a substring that fails to parse or to extract, and an XML file that
\* cannot be read, skip only that unit: after each file of the loop,
\* consolidated_records holds exactly one record for every substring that
\* extracts of every readable file handled so far, in file and substring
\* order, and the loop handles every XML file of the archive.
C13_FailuresSkipOneUnit ==
    /\ Len(consolidated_records) = Cardinality(Extractable)
    /\ \A fp \in Extractable :
          \E i \in 1..Len(consolidated_records) :
             /\ consolidated_records[i].file = fp[1]
             /\ consolidated_records[i].patent = fp[2]
    /\ \A i, j \in 1..Len(consolidated_records) :
          i < j =>
            \/ consolidated_records[i].file < consolidated_records[j].file
            \/ /\ consolidated_records[i].file = consolidated_records[j].file
               /\ consolidated_records[i].patent
                    < consolidated_records[j].patent
    /\ usReturn.at \in {"no_records", "upload"}
         => usFileIx = Len(XmlFiles(usArchive))

\* C13 witness: the archive's first XML file cannot be read, the second has
\* a substring that raises between two that extract, and the loop ended
\* with the records of the first and the third substring of the second file
C13_Witness ==
    /\ usReturn.at = "upload"
    /\ Len(XmlFiles(usArchive)) = 2
    /\ ~XmlFiles(usArchive)[1].readable
    /\ XmlFiles(usArchive)[2].patents = <<OkNone, BadRec, OkNone>>
    /\ Len(consolidated_records) = 2
    /\ consolidated_records[1].patent = 1
    /\ consolidated_records[2].patent = 3

(***************************************************************************)
(* Properties of split_patent_documents (SpecSplit).                       *)
(***************************************************************************)
\* C14: for a text made of K well-formed patent documents followed by one
\* truncated trailing fragment, split_patent_documents returns exactly K
\* substrings, equal to the K documents in document order (and therefore
\* non-overlapping).
C14_SplitReturnsTheSpans ==
    spPc = "returned" =>
      /\ Len(spResult) = Len(spSpans)
      /\ \A k \in 1..Len(spSpans) : spResult[k] = spSpans[k]

\* C14 witness: a text of MaxSpans documents, the first with attributes on
\* its opening tag, followed by a fragment cut off inside its body, was
\* split into the MaxSpans documents
C14_Witness ==
    /\ spPc = "returned"
    /\ Len(spSpans) = MaxSpans
    /\ \E i \in 1..Len(spSpans[1]) :
          spSpans[1][i] = TagOpen /\ spSpans[1][i + 2] = Ws
    /\ spText[Len(spText)] = Other /\ spText[Len(spText) - 1] = Gt
    /\ Len(spResult) = MaxSpans

(***************************************************************************)
(* Properties of extract_data (SpecExtract).                               *)
(***************************************************************************)
ExtractReturned == exPc = "returned" /\ exResult.kind = "record"

\* the text of a child element, '' for a child without character data
TextOf(child) == IF child.text = NoText THEN <<>> ELSE child.text

\* the five sub-components of entry i of the document are all there
CompleteEntry(i) ==
    /\ exDoc.cpc[i].section.exists /\ exDoc.cpc[i].class.exists
    /\ exDoc.cpc[i].subclass.exists /\ exDoc.cpc[i].main_group.exists
    /\ exDoc.cpc[i].subgroup.exists

\* the number of complete entries among the first i
CompleteEntriesUpTo(i) == Cardinality({j \in 1..i : CompleteEntry(j)})

\* C15: a classification-cpc entry contributes a code to 'classifications'
\* only when its five sub-components are all present; an entry missing one
\* is omitted entirely, and the complete entries are kept in document
\* order, each as section, class, subclass, ' ', main-group, '/', subgroup.
C15_OnlyCompleteEntries ==
    ExtractReturned =>
      /\ Len(exResult.classifications) = CompleteEntriesUpTo(Len(exDoc.cpc))
      /\ \A i \in 1..Len(exDoc.cpc) :
            CompleteEntry(i) =>
              exResult.classifications[CompleteEntriesUpTo(i)] =
                TextOf(exDoc.cpc[i].section) \o TextOf(exDoc.cpc[i].class)
                \o TextOf(exDoc.cpc[i].subclass) \o <<" ">>
                \o TextOf(exDoc.cpc[i].main_group) \o <<"/">>
                \o TextOf(exDoc.cpc[i].subgroup)

\* C15 witness: an entry without subgroup followed by a complete entry
\* gave the one code of the complete entry
C15_Witness ==
    /\ ExtractReturned
    /\ Len(exDoc.cpc) = 2
    /\ ~exDoc.cpc[1].subgroup.exists /\ exDoc.cpc[1].section.exists
    /\ CompleteEntry(2)
    /\ exResult.classifications =
         <<<<"G", "0", "6", "F", " ", "1", "7", "/", "3", "0">>>>

\* what index i of an address column must hold for addressbook ab
ExpectedAddressText(ab, child) ==
    IF ab.address.exists /\ ab.address[child].exists
    THEN TextOf(ab.address[child]) ELSE NoText

ExpectedText(el) == IF el.exists THEN TextOf(el) ELSE NoText

\* C16: in every returned record the parallel sequences of one entity group
\* have equal length and index i describes one entity: the i-th assignee
\* addressbook (orgname, city, country), the i-th inventor addressbook
\* (last name, first name, city, country), the i-th retained
\* classification with its version; a missing address or sub-field gives
\* None at index i and shifts nothing.
C16_ParallelSequencesAligned ==
    ExtractReturned =>
      /\ Len(exResult.assignees_orgnames) = Len(exDoc.assignees)
      /\ Len(exResult.assignees_cities) = Len(exDoc.assignees)
      /\ Len(exResult.assignees_countries) = Len(exDoc.assignees)
      /\ \A i \in 1..Len(exDoc.assignees) :
            /\ exResult.assignees_orgnames[i]
                 = ExpectedText(exDoc.assignees[i].orgname)
            /\ exResult.assignees_cities[i]
                 = ExpectedAddressText(exDoc.assignees[i], "city")
            /\ exResult.assignees_countries[i]
                 = ExpectedAddressText(exDoc.assignees[i], "country")
      /\ Len(exResult.inventors_last_names) = Len(exDoc.inventors)
      /\ Len(exResult.inventors_first_names) = Len(exDoc.inventors)
      /\ Len(exResult.inventors_cities) = Len(exDoc.inventors)
      /\ Len(exResult.inventors_countries) = Len(exDoc.inventors)
      /\ \A i \in 1..Len(exDoc.inventors) :
            /\ exResult.inventors_last_names[i]
                 = ExpectedText(exDoc.inventors[i].last_name)
            /\ exResult.inventors_first_names[i]
                 = ExpectedText(exDoc.inventors[i].first_name)
            /\ exResult.inventors_cities[i]
                 = ExpectedAddressText(exDoc.inventors[i], "city")
            /\ exResult.inventors_countries[i]
                 = ExpectedAddressText(exDoc.inventors[i], "country")
      /\ Len(exResult.classification_versions)
           = Len(exResult.classifications)
      /\ \A i \in 1..Len(exDoc.cpc) :
            CompleteEntry(i) =>
              exResult.classification_versions[CompleteEntriesUpTo(i)]
                = ExpectedText(exDoc.cpc[i].version)

\* C16 witness: the first assignee addressbook has no address and the
\* second has one; the first inventor has no first name and no country
C16_Witness ==
    /\ ExtractReturned
    /\ Len(exDoc.assignees) = 2
    /\ ~exDoc.assignees[1].address.exists
    /\ exDoc.assignees[2].address.exists
    /\ exResult.assignees_cities = <<NoText, <<"B", "o", "n", "n">>>>
    /\ Len(exDoc.inventors) = 2
    /\ ~exDoc.inventors[1].first_name.exists
    /\ exResult.inventors_first_names = <<NoText, <<"J">>>>
    /\ exResult.inventors_countries[1] = NoText

(***************************************************************************)
(* Properties of the classification and title fields (SpecFields).         *)
(***************************************************************************)
ParsedRecord == pxPc = "returned" /\ pxResult.kind = "record"

\* the number of occurrences of '; ' in s
SepCount(s) ==
    Cardinality({i \in 1..(Len(s) - 1) : s[i] = ";" /\ s[i + 1] = SP})

\* the classification-ipcr 'text' elements that have character data
WithText == {i \in 1..Len(pxDoc.ipc) : pxDoc.ipc[i] # NoText}

\* the trimmed texts of the elements from i on that have character data,
\* with '; ' before each but the first
RECURSIVE TrimmedJoinFrom(_, _)
TrimmedJoinFrom(i, first) ==
    IF i > Len(pxDoc.ipc) THEN <<>>
    ELSE IF i \notin WithText THEN TrimmedJoinFrom(i + 1, first)
    ELSE (IF first THEN <<>> ELSE <<";", SP>>) \o Strip(pxDoc.ipc[i])
         \o TrimmedJoinFrom(i + 1, FALSE)

\* C17 as stated: a document with N >= 1 'text' elements under the
\* classification-ipcr path gives a string with exactly N-1 occurrences of
\* '; '.
C17_OneSeparatorPerElement ==
    (ParsedRecord /\ Len(pxDoc.ipc) >= 1) =>
      SepCount(pxResult.ipc_classifications) = Len(pxDoc.ipc) - 1

\* C17 amended: ipc_classifications is the trimmed texts of those 'text'
\* elements under the classification-ipcr path that have character data,
\* in document order, joined by '; '; with M such elements it is the empty
\* string when M = 0 and contains exactly M-1 occurrences of '; ' otherwise
\* (no text containing '; ' itself).
C17_SeparatorsBetweenNonEmptyTexts ==
    ParsedRecord =>
      /\ pxResult.ipc_classifications = TrimmedJoinFrom(1, TRUE)
      /\ WithText = {} => pxResult.ipc_classifications = <<>>
      /\ WithText # {} =>
           SepCount(pxResult.ipc_classifications) = Cardinality(WithText) - 1

\* C17 witness: of three 'text' elements the second has no character data;
\* the string is the two trimmed texts with one separator
C17_Witness ==
    /\ ParsedRecord
    /\ pxDoc.ipc = <<<<SP, "G", "0", "6", "F", SP>>, NoText,
                     <<"H", "0", "4", "L">>>>
    /\ pxResult.ipc_classifications =
         <<"G", "0", "6", "F", ";", SP, "H", "0", "4", "L">>

\* str.lower() on the letters of the language codes
Folded(s) ==
    [i \in 1..Len(s) |->
        CASE s[i] \in {"D", "d"} -> "d" [] s[i] \in {"E", "e"} -> "e"
          [] s[i] \in {"F", "f"} -> "f" [] s[i] \in {"N", "n"} -> "n"
          [] s[i] \in {"R", "r"} -> "r" [] OTHER -> s[i]]

Trimmed(t) == IF t = NoText THEN <<>> ELSE Strip(t)

\* the positions k, up to the shorter of the B541 and B542 sequences, whose
\* trimmed language code is `code` whatever its case
PairsOf(code) ==
    {k \in 1..Len(pxDoc.b540.langs) :
        /\ k <= Len(pxDoc.b540.texts)
        /\ Folded(Trimmed(pxDoc.b540.langs[k])) = code}

\* the title a language must end with: the trimmed text of its last pair,
\* '' when it has none
TitleOf(code) ==
    IF PairsOf(code) = {} THEN <<>>
    ELSE Trimmed(pxDoc.b540.texts[
            CHOOSE k \in PairsOf(code) : \A j \in PairsOf(code) : j <= k])

\* C18: the k-th B541 of the first B540 is paired with the k-th B542 by
\* position only, up to the shorter sequence; title_en, title_de and
\* title_fr are the trimmed text of the last pair whose trimmed language
\* code is en, de or fr in any case, and the empty string when there is no
\* such pair; pairs with another code change nothing.
C18_TitlesPairedByPosition ==
    ParsedRecord =>
      /\ pxResult.title_en = TitleOf(<<"e", "n">>)
      /\ pxResult.title_de = TitleOf(<<"d", "e">>)
      /\ pxResult.title_fr = TitleOf(<<"f", "r">>)

\* C18 witness: two B541 'EN' and 'en' paired with two B542; the second
\* text, trimmed, is the English title and the other titles are empty
C18_Witness ==
    /\ ParsedRecord
    /\ pxDoc.b540.exists
    /\ pxDoc.b540.langs = <<<<"E", "N">>, <<"e", "n">>>>
    /\ pxDoc.b540.texts = <<<<"W">>, <<SP, "V", SP>>>>
    /\ pxResult.title_en = <<"V">>
    /\ pxResult.title_de = <<>> /\ pxResult.title_fr = <<>>

(***************************************************************************)
(* Properties of chunk_text (SpecChunk).                                   *)
(***************************************************************************)
Stride == ckMax - ckOverlap

\* the chunks that hold token position p
ChunksWith(p) ==
    {i \in 1..Len(chunks) :
        \E k \in 1..Len(chunks[i].text_of) : chunks[i].text_of[k] = p}

\* C19, in every state: chunk i (counted from 0) is the tokens from
\* position i*(budget-overlap) on, up to budget of them or to the end of
\* the sequence, so it has at most budget tokens and consecutive chunks
\* start budget-overlap apart; at the return there are
\* ceil(n / (budget-overlap)) chunks and every token is in at least one.
ChunksAreWindows ==
    /\ \A i \in 1..Len(chunks) :
          LET w     == chunks[i].text_of
              first == (i - 1) * Stride
          IN /\ 1 <= Len(w) /\ Len(w) <= ckMax
             /\ first + Len(w) <= Len(ckTokens)
             /\ Len(w) < ckMax => first + Len(w) = Len(ckTokens)
             /\ \A k \in 1..Len(w) : w[k] = ckTokens[first + k]
    /\ ckPc = "returned" =>
          /\ Len(chunks) = (Len(ckTokens) + Stride - 1) \div Stride
          /\ \A p \in 1..Len(ckTokens) : ChunksWith(p) # {}

\* C19: for every token sequence and every budget > overlap >= 0 the loop
\* of chunk_text terminates, and its chunks are the windows described
\* above.
C19_ChunksCoverTheTokens ==
    /\ []ChunksAreWindows
    /\ <>(ckPc = "returned")

\* C19 witness: five tokens, budget 3 and overlap 1 gave three chunks, the
\* last of one token
C19_Witness ==
    /\ ckPc = "returned"
    /\ Len(ckTokens) = 5 /\ ckMax = 3 /\ ckOverlap = 1
    /\ Len(chunks) = 3
    /\ chunks[2].text_of = <<3, 4, 5>>
    /\ chunks[3].text_of = <<5>>

(***************************************************************************)
(* Properties of embed_document and process_key (SpecEmbed).               *)
(***************************************************************************)
\* a step of embed_document fails
EmbedFails ==
    emEnv.preprocess # "ok" \/ emEnv.chunk # "ok" \/ emEnv.encode # "ok"

\* the text has no word that survives preprocessing, so there is no chunk
\* and the encoder yields no vector
NoVectors ==
    /\ emText # NoText
    /\ \A i \in 1..Len(emText) : emText[i] \in {"The", "--"}

AllZeros(v) ==
    /\ DOMAIN v = 1..TARGET_DIM
    /\ \A d \in 1..TARGET_DIM : v[d] = 0

\* C20: embed_document never raises, and when preprocessing, chunking or
\* encoding fails, or the encoder yields no vectors, it returns a vector of
\* exactly TARGET_DIM zeros; process_key returns the parsed record with an
\* 'embedding' field added whenever parse_xml returned a record (a vector
\* of zeros when a step of the embedding failed), and None otherwise.
C20_EmbeddingFailureGivesZeros ==
    /\ emPc = "embedded" =>
         /\ emResult.kind = "list"
         /\ (EmbedFails \/ NoVectors) => AllZeros(emResult.value)
    /\ emPc = "processed" =>
         LET data == ParseXml(emDoc)
         IN IF data.kind = "record"
            THEN /\ emResult.kind = "record"
                 /\ DOMAIN emResult = DOMAIN data \cup {"embedding"}
                 /\ \A f \in DOMAIN data : emResult[f] = data[f]
                 /\ EmbedFails => AllZeros(emResult.embedding)
            ELSE emResult = None

\* C20 witness: process_key on a document parse_xml accepts, with the
\* tokenizer rejecting the text, returned the record with a zero embedding
C20_Witness ==
    /\ emPc = "processed"
    /\ emDoc.b540.exists
    /\ emEnv.preprocess = "ok" /\ emEnv.chunk = "ValueError"
    /\ emResult.kind = "record"
    /\ emResult.title_en = <<"W">>
    /\ AllZeros(emResult.embedding)

\* C21: embed_document returns a vector of exactly TARGET_DIM zeros, and
\* raises nothing, both for the empty text and for the missing text (None).
C21_EmptyOrMissingTextGivesZeros ==
    (emPc = "embedded" /\ emText \in {NoText, <<>>}) =>
        /\ emResult.kind = "list"
        /\ AllZeros(emResult.value)

\* C21: the same for the empty text alone, which preprocess_text does not
\* replace
C21_EmptyTextGivesZeros ==
    (emPc = "embedded" /\ emText = <<>>) =>
        /\ emResult.kind = "list"
        /\ AllZeros(emResult.value)

(***************************************************************************)
(* Properties of the archive names (SpecNames).                            *)
(***************************************************************************)
\* the week as two decimal digits
TwoDigits(w) == <<Digits[(w \div 10) + 1], Digits[(w % 10) + 1]>>

\* C23: for every 4-digit year and every week 1..52 the archive name the
\* backfill loop builds (EPRTBJV, year, 0000, the week zero-padded to two
\* digits, 001001, then .zip or .tar) is decoded by the scraper's slices
\* [7:11] and [15:17] to the same year and the same week string, so both
\* scripts derive the same XML folder year/epo-xmls/year_week.
C23_NameRoundTrip ==
    nmPc = "done" =>
        /\ Len(nmBuilt.name) = 27
        /\ nmBuilt.week = TwoDigits(nmWeek)
        /\ nmDerived.year = nmYear
        /\ nmDerived.week = TwoDigits(nmWeek)
        /\ nmDerived.folder = nmBuilt.folder
        /\ nmDerived.folder =
             nmYear \o <<"/", "e", "p", "o", "-", "x", "m", "l", "s", "/">>
                    \o nmYear \o <<"_">> \o TwoDigits(nmWeek)

\* C23 witness: the .tar archive of week 7 of 2025 was named and decoded
\* to year 2025 and week 07
C23_Witness ==
    /\ nmPc = "done"
    /\ nmWeek = 7 /\ nmExt = <<".", "t", "a", "r">>
    /\ nmBuilt.name[16] = "0" /\ nmBuilt.name[17] = "7"
    /\ nmDerived.year = <<"2", "0", "2", "5">>
    /\ nmDerived.week = <<"0", "7">>

(***************************************************************************)
(* Properties of the backfill of epo_extract_xml (SpecBackfill).           *)
(***************************************************************************)
\* the file names of the valid XMLs of the archive
ValidXmlsOf(entries) ==
    {Basename(entries[i]) :
        i \in {j \in 1..Len(entries) : IsValidXml(entries[j])}}

\* C28: over any sequence of runs in which extract_and_upload may fail
\* after uploading some XMLs, an archive is skipped as already processed
\* only if every valid XML it contains is in its destination folder.
C28_SkippedOnlyWhenComplete ==
    bfPc = "skipped" => ValidXmlsOf(bfEntries) \subseteq bfFolder

\* C28: an archive is skipped only when its folder holds some XML
C28_SkippedOnlyWhenSomeXml ==
    bfPc = "skipped" => bfFolder # {}

(***************************************************************************)
(* Properties of the scraper epo_s3 (SpecScraper).                         *)
(***************************************************************************)
\* C29: after any sequence of runs of download_and_process_latest_file,
\* if the raw archive is in S3 under its archive key then every valid XML
\* of the archive is under its XML folder.
C29_RawArchiveImpliesXmls ==
    (scPc = "finished" /\ scRaw) => ValidXmlsOf(scEntries) \subseteq scFolder

\* C29: the XMLs of the folder are never there without the raw archive
C29_XmlsImplyRawArchive ==
    scFolder # {} => scRaw

(***************************************************************************)
(* Properties of both EPO scripts (SpecArchives).                          *)
(***************************************************************************)
\* the path ends in neither .zip nor .tar
Unsupported(path) ==
    /\ SubSeq(path, Len(path) - 3, Len(path)) # <<".", "z", "i", "p">>
    /\ SubSeq(path, Len(path) - 3, Len(path)) # <<".", "t", "a", "r">>

\* C22: for an archive whose name ends in neither .zip nor .tar the
\* extraction fails for that archive: extract_and_upload of
\* epo_extract_xml reports an error (the ValueError of
\* extract_top_archive, unless the download failed before) and
\* extract_and_upload_xmls of epo_s3 reports the unsupported format,
\* neither reports a success, and no XML of the archive is uploaded.
C22_UnsupportedArchiveUploadsNothing ==
    /\ (bfKey # <<>> /\ Unsupported(bfKey)) =>
          /\ bfLog.uploads = {} /\ bfFolder = {}
          /\ bfPc \in {"except", "finally", "returned"} =>
                bfLog.exc \in {"ValueError", "ClientError"}
          /\ bfPc \in {"finally", "returned"} => bfLog.report = "error"
    /\ (scFile # <<>> /\ Unsupported(scFile)) =>
          /\ scLog.uploads = {} /\ scFolder = {}
          /\ scPc = "cleanup" => scLog.report = "unsupported"
          /\ scLog.report # "success"

\* C22 witness: the page listed the archive with the extension .ZIP, the
\* raw archive was uploaded, and the extraction of its XMLs was given up
\* as an unsupported format with nothing uploaded
C22_Witness ==
    /\ scPc = "finished"
    /\ scFile[Len(scFile)] = "P"
    /\ Len(scEntries) = MaxNames /\ IsValidXml(scEntries[1])
    /\ scRaw
    /\ scLog.report = "unsupported"
    /\ scFolder = {}

\* extract_and_upload was called with an archive key ending in .gz and
\* returned after reporting the ValueError, with nothing uploaded
C22_BackfillCase ==
    /\ bfPc = "returned"
    /\ bfKey[Len(bfKey)] = "z" /\ bfKey[Len(bfKey) - 1] = "g"
    /\ Len(bfEntries) = MaxNames /\ IsValidXml(bfEntries[1])
    /\ bfLog.report = "error" /\ bfLog.exc = "ValueError"
    /\ bfFolder = {}

(***************************************************************************)
(* Properties of the main loop of uspto_scraper (SpecMain).                *)
(***************************************************************************)
\* the file of the iteration is named ipgYYMMDD.zip
WeeklyFile ==
    /\ Len(mnNow.filename) = 13
    /\ SubSeq(mnNow.filename, 1, 3) = <<"i", "p", "g">>
    /\ \A k \in 4..9 : mnNow.filename[k] \in {Digits[d] : d \in 1..10}
    /\ SubSeq(mnNow.filename, 10, 13) = <<".", "z", "i", "p">>

\* the iteration was carried through: no exception left the loop, the
\* link was there, and the loop went on to the next file
CarriedThrough ==
    /\ mnPc \in {"loop", "ended"}
    /\ mnNow.left \in {"skipped", "processed", "download failed",
                        "upload failed"}

C30_ProcessedFromS3 ==
    /\ mnPc = "loop" /\ mnI = 1
    /\ WeeklyFile /\ mnNow.rawAtStart /\ ~mnNow.parquetAtStart
    /\ mnNow.processed = "s3" /\ ~mnNow.clicked

\* a listed file had both keys in S3 and was skipped
C30_Skipped ==
    /\ WeeklyFile /\ mnNow.rawAtStart /\ mnNow.parquetAtStart
    /\ mnNow.left = "skipped"

=============================================================================
